---- MODULE Spec2Model ----
(***************************************************************************)
(* A model of the skill-discovery service: the skill store behind          *)
(* ElasticsearchSkillRepository, the SkillOrchestrator on top of it, the   *)
(* permission walk of AuthService and the two MCP dispatch paths of        *)
(* MCPToolRouter.                                                          *)
(*                                                                         *)
(* Conventions.                                                            *)
(*  - A Python value that may be None is a sequence of length 0 or 1.      *)
(*  - Every modelled call returns [raised, value]: raised = "" for a       *)
(*    normal return, otherwise the name of the exception that propagates.  *)
(*  - A Python dict is a function whose DOMAIN is the set of its keys.     *)
(*  - ret is the record of the last completed call.                        *)
(***************************************************************************)
EXTENDS Integers, Sequences, FiniteSets, TLC

\* The member names of the records of the model, in the order in which the
\* records below write them.
RecordMembers ==
    [op |-> {}, args |-> {}, raised |-> {}, value |-> {}, type |-> {},
     skill_id |-> {}, summary |-> {}, is_folder |-> {}, content |-> {},
     sub_skills |-> {}, instruction |-> {}, has_children |-> {},
     score |-> {}, users |-> {}, keys |-> {}, found |-> {}, store |-> {},
     ret |-> {}, elasticsearch |-> {}, embedding_model |-> {},
     embedding_dims |-> {}, query |-> {}, resolved |-> {}, entry |-> {},
     skill |-> {}, subs |-> {}, children |-> {}, reads |-> {},
     jsonrpc |-> {}, id |-> {}, result |-> {}, stack |-> {}, turns |-> {},
     results |-> {}, text |-> {}, x_api_key |-> {}, key_doc |-> {},
     reached |-> {}, calls |-> {}, phase |-> {}, attempt |-> {},
     delay |-> {}, slept |-> {}, services |-> {}, reachable |-> {},
     error |-> {}, code |-> {}, message |-> {}, key_id |-> {},
     key_hash |-> {}, name |-> {}, required |-> {}, protocolVersion |-> {},
     capabilities |-> {}, serverInfo |-> {}, tools |-> {}, version |-> {},
     username |-> {}, password_hash |-> {}, password |-> {}, sub |-> {},
     role |-> {}, allowed_skills |-> {}, prefix |-> {}, scopes |-> {},
     exp |-> {}, signed |-> {}, access_token |-> {}, token_type |-> {},
     created_at |-> {}, full_key |-> {}, aux |-> {}, i |-> {}, start |-> {},
     gone |-> {}, gone_fetch |-> {}, gone_list |-> {}, gone_child |-> {},
     k |-> {}, arguments |-> {}, method |-> {}, params |-> {}, hint |-> {},
     scheme |-> {}, token |-> {}, authorization |-> {}, now |-> {},
     status |-> {}]

VARIABLES
    store,     \* the skill index: _id -> _source
    latest,    \* history: skill_id -> payload of the latest upsert not yet deleted
    ret,       \* the last completed call: [op, args, raised, value, ...]
    pc,        \* position of the resolve() call in flight
    rs,        \* locals of the resolve() call in flight
    users,     \* the user index: username -> _source
    keys,      \* the API-key index: key_id -> _source
    issued,    \* history: raw API key generated by create_key -> "stored" or "revoked"
    boot       \* startup: the readiness loop and the service singletons

vars == <<store, latest, ret, pc, rs, users, keys, issued, boot>>

\* What the skill operations leave alone.
gate == <<users, keys, issued, boot>>

\* ------------------------------------------------------------------ bounds

\* Largest k a caller passes to discover / find_relevant_skill.
MaxK == 2

\* ------------------------------------------------------------- exceptions

Ok(v) == [raised |-> "", value |-> v]

Raise(e) == [raised |-> e, value |-> <<>>]

IsOk(r) == r.raised = ""

None == <<>>

\* ----------------------------------------------------------- pydantic models

SkillFields == {"skill_id", "summary", "is_folder", "sub_skills", "instruction"}

\* SkillBase: skill_id and summary are required, the rest has defaults.
SkillRead(doc) ==
    [skill_id    |-> doc.skill_id,
     summary     |-> doc.summary,
     is_folder   |-> IF "is_folder" \in DOMAIN doc THEN doc.is_folder ELSE FALSE,
     sub_skills  |-> IF "sub_skills" \in DOMAIN doc THEN doc.sub_skills ELSE <<>>,
     instruction |-> IF "instruction" \in DOMAIN doc THEN doc.instruction ELSE ""]

\* SkillDiscovery: score defaults to 0.
SkillDiscovery(doc) ==
    [skill_id   |-> doc.skill_id,
     summary    |-> IF "summary" \in DOMAIN doc THEN doc.summary ELSE "",
     sub_skills |-> IF "sub_skills" \in DOMAIN doc THEN doc.sub_skills ELSE <<>>,
     score      |-> IF "score" \in DOMAIN doc THEN doc.score ELSE 0]

\* ------------------------------------------------------- embedding provider

\* EmbeddingProvider.encode: a deterministic map from a text to a vector.  The
\* vectors of the model are small naturals; two texts may share a vector.
encode(text) ==
    CASE text = "s1" -> 1
      [] text = "s2" -> 2
      [] text = "q1" -> 1
      [] text = "q2" -> 3
      [] OTHER       -> 0

\* The store's similarity score of a document vector for a query vector.
Score(qv, dv) == IF qv = dv THEN 3 ELSE IF qv > dv THEN 3 - (qv - dv) ELSE 3 - (dv - qv)

Range(seq) == {seq[i] : i \in 1..Len(seq)}

\* ------------------------------------------------------------ the skill index

EmptyStore == [i \in {} |-> <<>>]

\* _source_includes: the document restricted to the requested fields.
Project(doc, fields) == [f \in (DOMAIN doc) \cap fields |-> doc[f]]

\* OpenSearch.get: the document, or NotFoundError.
EsGet(s, id) ==
    IF id \in DOMAIN s THEN Ok(<<s[id]>>) ELSE Raise("NotFoundError")

\* get_by_id without the except clause: NotFoundError reaches the caller.
get_by_id_uncaught(s, skill_id, fields) ==
    LET r == EsGet(s, skill_id) IN
    IF ~IsOk(r) THEN r ELSE Ok(<<Project(r.value[1], fields)>>)

get_by_id(s, skill_id, fields) ==
    LET r == EsGet(s, skill_id) IN
    IF r.raised = "NotFoundError" THEN Ok(None)
    ELSE IF ~IsOk(r) THEN r
    ELSE Ok(<<Project(r.value[1], fields)>>)

\* upsert as a create-only write: an existing document is kept.
upsert_if_absent(s, skill) ==
    [i \in (DOMAIN s) \cup {skill.skill_id} |->
        IF i = skill.skill_id /\ i \notin DOMAIN s THEN skill ELSE s[i]]

\* OpenSearch.index with id = skill["skill_id"]: insert or overwrite.
upsert(s, skill) ==
    [i \in (DOMAIN s) \cup {skill.skill_id} |->
        IF i = skill.skill_id THEN skill ELSE s[i]]

\* delete that takes the documents named by the sub_skills of the deleted one
\* with it.
delete_cascade(s, skill_id) ==
    IF skill_id \in DOMAIN s
    THEN [found |-> TRUE,
          store |-> [i \in (DOMAIN s) \ ({skill_id} \cup Range(s[skill_id].sub_skills)) |-> s[i]]]
    ELSE [found |-> FALSE, store |-> s]

\* OpenSearch.delete: [found, store].
delete(s, skill_id) ==
    IF skill_id \in DOMAIN s
    THEN [found |-> TRUE, store |-> [i \in (DOMAIN s) \ {skill_id} |-> s[i]]]
    ELSE [found |-> FALSE, store |-> s]

\* The orders in which a search may hand back the documents of s.
Orders(s) ==
    LET n == Cardinality(DOMAIN s) IN
    {o \in [1..n -> DOMAIN s] : \A i, j \in 1..n : o[i] = o[j] => i = j}

\* The orders a k-NN search may use: best score first, ties in any order.
RankedOrders(s, vector) ==
    {o \in Orders(s) :
        \A i, j \in 1..Len(o) :
            i < j => Score(vector, s[o[i]].skill_desc_vector)
                        >= Score(vector, s[o[j]].skill_desc_vector)}

Min(a, b) == IF a < b THEN a ELSE b

\* The first size documents of the order.
Page(order, size) == SubSeq(order, 1, Min(size, Len(order)))

search_by_vector(s, vector, k, order) ==
    LET page == Page(order, k) IN
    [i \in 1..Len(page) |->
        [skill_id   |-> s[page[i]].skill_id,
         summary    |-> s[page[i]].summary,
         is_folder  |-> s[page[i]].is_folder,
         sub_skills |-> s[page[i]].sub_skills,
         score      |-> Score(vector, s[page[i]].skill_desc_vector)]]

ListFields == {"skill_id", "summary", "is_folder", "sub_skills"}

list_all(s, size, order) ==
    LET page == Page(order, size) IN
    [i \in 1..Len(page) |-> Project(s[page[i]], ListFields)]

\* Default page size of list_all, and the page size build_tree asks for.
ListAllDefaultSize == 200

BuildTreePageSize == 500

\* ------------------------------------------------------------ SkillOrchestrator

discover(s, query, k, order) ==
    LET vector == encode(query)
        hits   == search_by_vector(s, vector, k, order)
    IN  Ok([i \in 1..Len(hits) |-> SkillDiscovery(hits[i])])

get_skill(s, skill_id, include_instruction) ==
    LET fields == ListFields \cup (IF include_instruction THEN {"instruction"} ELSE {})
        doc    == get_by_id(s, skill_id, fields)
    IN  IF ~IsOk(doc) THEN doc
        ELSE IF doc.value = None THEN Ok(None)
        ELSE Ok(<<SkillRead(doc.value[1])>>)

ChildFields == {"skill_id", "summary", "sub_skills"}

\* The loop of get_sub_skills without the `if child:` test: a child that does
\* not resolve is subscripted all the same.
RECURSIVE SubSkillsFrom_NoSkip(_, _, _)
SubSkillsFrom_NoSkip(s, subs, i) ==
    IF i > Len(subs) THEN Ok(<<>>)
    ELSE LET child == get_by_id(s, subs[i], ChildFields) IN
         IF ~IsOk(child) THEN child
         ELSE IF child.value = None THEN Raise("TypeError")
         ELSE LET rest == SubSkillsFrom_NoSkip(s, subs, i + 1) IN
              IF ~IsOk(rest) THEN rest
              ELSE Ok(<<SkillDiscovery(child.value[1])>> \o rest.value)

\* The loop of get_sub_skills putting each child in front of the ones found
\* before it.
RECURSIVE SubSkillsFrom_Prepending(_, _, _)
SubSkillsFrom_Prepending(s, subs, i) ==
    IF i > Len(subs) THEN Ok(<<>>)
    ELSE LET child == get_by_id(s, subs[i], ChildFields) IN
         IF ~IsOk(child) THEN child
         ELSE LET rest == SubSkillsFrom_Prepending(s, subs, i + 1) IN
              IF ~IsOk(rest) THEN rest
              ELSE IF child.value = None THEN rest
              ELSE Ok(rest.value \o <<SkillDiscovery(child.value[1])>>)

\* The loop of get_sub_skills over subs[i..]: the children that resolve, in order.
RECURSIVE SubSkillsFrom(_, _, _)
SubSkillsFrom(s, subs, i) ==
    IF i > Len(subs) THEN Ok(<<>>)
    ELSE LET child == get_by_id(s, subs[i], ChildFields) IN
         IF ~IsOk(child) THEN child
         ELSE LET rest == SubSkillsFrom(s, subs, i + 1) IN
              IF ~IsOk(rest) THEN rest
              ELSE IF child.value = None THEN rest
              ELSE Ok(<<SkillDiscovery(child.value[1])>> \o rest.value)

get_sub_skills(s, skill_id) ==
    LET parent == get_by_id(s, skill_id, {"sub_skills"}) IN
    IF ~IsOk(parent) THEN parent
    ELSE IF parent.value = None THEN Ok(<<>>)
    ELSE SubSkillsFrom(s, parent.value[1].sub_skills, 1)

\* The document create_or_update_skill writes: the payload plus its vector.
SkillDoc(payload) ==
    [f \in SkillFields \cup {"skill_desc_vector"} |->
        IF f = "skill_desc_vector" THEN encode(payload.summary) ELSE payload[f]]

\* create_or_update_skill that computes the vector only for a new skill and
\* keeps the stored vector when the skill exists.
create_or_update_skill_cached_vector(s, payload) ==
    LET doc == IF payload.skill_id \in DOMAIN s
               THEN [SkillDoc(payload) EXCEPT
                        !.skill_desc_vector = s[payload.skill_id].skill_desc_vector]
               ELSE SkillDoc(payload)
    IN  [store |-> upsert(s, doc), ret |-> Ok(<<SkillRead(payload)>>)]

create_or_update_skill(s, payload) ==
    [store |-> upsert(s, SkillDoc(payload)), ret |-> Ok(<<SkillRead(payload)>>)]

delete_skill(s, skill_id) ==
    LET d == delete(s, skill_id) IN [store |-> d.store, ret |-> Ok(<<d.found>>)]

\* What OpenSearch.ping may do: answer True, answer False, raise.
PingOutcomes == {"true", "false", "raises"}

\* health_check without the except clause.
health_check_unguarded(ping) ==
    IF ping = "raises" THEN Raise("ConnectionError") ELSE Ok(ping = "true")

\* ElasticsearchSkillRepository.health_check.
health_check(ping) == Ok(ping = "true")

\* EmbeddingProvider.get_dimensions of the default model.
EmbeddingDims == 384

\* SkillOrchestrator.health.
health(ping) ==
    LET es_ok == health_check(ping) IN
    IF ~IsOk(es_ok) THEN es_ok
    ELSE Ok([elasticsearch   |-> IF es_ok.value THEN "ok" ELSE "unreachable",
             embedding_model |-> "loaded",
             embedding_dims  |-> EmbeddingDims])

list_skills(s, order) ==
    LET docs == list_all(s, ListAllDefaultSize, order) IN
    Ok([i \in 1..Len(docs) |-> SkillDiscovery(docs[i])])

\* SkillTree.
SkillTree(doc, children) ==
    [skill_id  |-> doc.skill_id,
     summary   |-> IF "summary" \in DOMAIN doc THEN doc.summary ELSE "",
     is_folder |-> IF "is_folder" \in DOMAIN doc THEN doc.is_folder ELSE FALSE,
     children  |-> children]

\* lookup = {d["skill_id"]: d for d in all_docs}: a later document wins.
LookupOf(docs) ==
    [id \in {docs[i].skill_id : i \in 1..Len(docs)} |->
        docs[CHOOSE i \in 1..Len(docs) :
                /\ docs[i].skill_id = id
                /\ \A j \in 1..Len(docs) : docs[j].skill_id = id => j <= i]]

\* child_ids: every id some listed document names in its sub_skills.
ChildIds(docs) ==
    UNION {{docs[i].sub_skills[j] : j \in 1..Len(docs[i].sub_skills)} : i \in 1..Len(docs)}

\* The call depth past which _build is on a cycle of the lookup: a path through
\* more nodes than the lookup holds repeats one, and the recursion has no other
\* end than the interpreter's RecursionError.
RecursionLimit(lookup) == Cardinality(DOMAIN lookup)

\* _build that expands the children of folders only.
RECURSIVE BuildChildren_FoldersOnly(_, _, _, _)
BuildChildren_FoldersOnly(lookup, doc, i, depth) ==
    IF ~doc.is_folder THEN Ok(<<>>)
    ELSE IF depth > RecursionLimit(lookup) THEN Raise("RecursionError")
    ELSE IF i > Len(doc.sub_skills) THEN Ok(<<>>)
    ELSE LET sid  == doc.sub_skills[i]
             rest == BuildChildren_FoldersOnly(lookup, doc, i + 1, depth)
         IN  IF sid \notin DOMAIN lookup THEN rest
             ELSE LET sub == BuildChildren_FoldersOnly(lookup, lookup[sid], 1, depth + 1) IN
                  IF ~IsOk(sub) THEN sub
                  ELSE IF ~IsOk(rest) THEN rest
                  ELSE Ok(<<SkillTree(lookup[sid], sub.value)>> \o rest.value)

\* The loop of _build(doc) over doc["sub_skills"][i..], at call depth `depth`:
\* the nodes of the children found in the lookup, each built recursively.
RECURSIVE BuildChildren(_, _, _, _)
BuildChildren(lookup, doc, i, depth) ==
    IF depth > RecursionLimit(lookup) THEN Raise("RecursionError")
    ELSE IF i > Len(doc.sub_skills) THEN Ok(<<>>)
    ELSE LET sid  == doc.sub_skills[i]
             rest == BuildChildren(lookup, doc, i + 1, depth)
         IN  IF sid \notin DOMAIN lookup THEN rest
             ELSE LET sub == BuildChildren(lookup, lookup[sid], 1, depth + 1) IN
                  IF ~IsOk(sub) THEN sub
                  ELSE IF ~IsOk(rest) THEN rest
                  ELSE Ok(<<SkillTree(lookup[sid], sub.value)>> \o rest.value)

\* _build(doc).
BuildNode(lookup, doc) ==
    LET children == BuildChildren(lookup, doc, 1, 1) IN
    IF ~IsOk(children) THEN children ELSE Ok(SkillTree(doc, children.value))

\* [_build(r) for r in roots].
RECURSIVE BuildRoots(_, _, _)
BuildRoots(lookup, roots, i) ==
    IF i > Len(roots) THEN Ok(<<>>)
    ELSE LET node == BuildNode(lookup, roots[i]) IN
         IF ~IsOk(node) THEN node
         ELSE LET rest == BuildRoots(lookup, roots, i + 1) IN
              IF ~IsOk(rest) THEN rest ELSE Ok(<<node.value>> \o rest.value)

\* build_tree that builds a tree under every listed document, named as a child
\* or not.
build_tree_every_doc(s, order) ==
    LET all_docs == list_all(s, BuildTreePageSize, order)
        lookup   == LookupOf(all_docs)
    IN  BuildRoots(lookup, all_docs, 1)

build_tree(s, order) ==
    LET all_docs  == list_all(s, BuildTreePageSize, order)
        lookup    == LookupOf(all_docs)
        child_ids == ChildIds(all_docs)
        roots     == SelectSeq(all_docs, LAMBDA d : d.skill_id \notin child_ids)
    IN  BuildRoots(lookup, roots, 1)

\* -------------------------------------------------------------- AuthService

\* The depth past which _is_descendant gives up.
DepthCap == 10

\* A permission answer: value is the boolean returned, reads the number of
\* get_by_id calls made on the skill repository to compute it.
Answer(raised, value, reads) == [raised |-> raised, value |-> value, reads |-> reads]

\* _is_descendant without the depth test.  A descent through more skills than
\* the store holds has come back to a skill it already went through; it then
\* repeats without end, and the interpreter stops it with RecursionError.
RECURSIVE _is_descendant_uncapped(_, _, _, _)
RECURSIVE AnyDescendant_uncapped(_, _, _, _, _)
_is_descendant_uncapped(s, target, parent, depth) ==
    IF depth > Cardinality(DOMAIN s) THEN Answer("RecursionError", FALSE, 0)
    ELSE LET doc == get_by_id(s, parent, {"sub_skills"}) IN
         IF ~IsOk(doc) THEN Answer(doc.raised, FALSE, 1)
         ELSE IF doc.value = None THEN Answer("", FALSE, 1)
         ELSE LET subs == doc.value[1].sub_skills IN
              IF target \in Range(subs) THEN Answer("", TRUE, 1)
              ELSE LET a == AnyDescendant_uncapped(s, target, subs, 1, depth + 1) IN
                   Answer(a.raised, a.value, a.reads + 1)

AnyDescendant_uncapped(s, target, subs, i, depth) ==
    IF i > Len(subs) THEN Answer("", FALSE, 0)
    ELSE LET d == _is_descendant_uncapped(s, target, subs[i], depth) IN
         IF ~IsOk(d) \/ d.value THEN d
         ELSE LET rest == AnyDescendant_uncapped(s, target, subs, i + 1, depth) IN
              Answer(rest.raised, rest.value, d.reads + rest.reads)

\* _is_descendant(target, parent, _depth), and the any(...) over subs[i..] it
\* ends with, which stops at the first child that answers True.
RECURSIVE _is_descendant(_, _, _, _)
RECURSIVE AnyDescendant(_, _, _, _, _)
\* _is_descendant with the test of the parent document inverted: a parent that
\* is not stored answers True.
_is_descendant_missing_parent_grants(s, target, parent, depth) ==
    IF depth > DepthCap THEN Answer("", FALSE, 0)
    ELSE LET doc == get_by_id(s, parent, {"sub_skills"}) IN
         IF ~IsOk(doc) THEN Answer(doc.raised, FALSE, 1)
         ELSE IF doc.value = None THEN Answer("", TRUE, 1)
         ELSE LET subs == doc.value[1].sub_skills IN
              IF target \in Range(subs) THEN Answer("", TRUE, 1)
              ELSE LET a == AnyDescendant(s, target, subs, 1, depth + 1) IN
                   Answer(a.raised, a.value, a.reads + 1)

_is_descendant(s, target, parent, depth) ==
    IF depth > DepthCap THEN Answer("", FALSE, 0)
    ELSE LET doc == get_by_id(s, parent, {"sub_skills"}) IN
         IF ~IsOk(doc) THEN Answer(doc.raised, FALSE, 1)
         ELSE IF doc.value = None THEN Answer("", FALSE, 1)
         ELSE LET subs == doc.value[1].sub_skills IN
              IF target \in Range(subs) THEN Answer("", TRUE, 1)
              ELSE LET a == AnyDescendant(s, target, subs, 1, depth + 1) IN
                   Answer(a.raised, a.value, a.reads + 1)

AnyDescendant(s, target, subs, i, depth) ==
    IF i > Len(subs) THEN Answer("", FALSE, 0)
    ELSE LET d == _is_descendant(s, target, subs[i], depth) IN
         IF ~IsOk(d) \/ d.value THEN d
         ELSE LET rest == AnyDescendant(s, target, subs, i + 1, depth) IN
              Answer(rest.raised, rest.value, d.reads + rest.reads)

\* The loop of is_skill_accessible over allowed_skills[i..].
RECURSIVE AnyAllowed(_, _, _, _)
AnyAllowed(s, skill_id, allowed_skills, i) ==
    IF i > Len(allowed_skills) THEN Answer("", FALSE, 0)
    ELSE LET d == _is_descendant(s, skill_id, allowed_skills[i], 0) IN
         IF ~IsOk(d) \/ d.value THEN d
         ELSE LET rest == AnyAllowed(s, skill_id, allowed_skills, i + 1) IN
              Answer(rest.raised, rest.value, d.reads + rest.reads)

\* is_skill_accessible without the test for an empty allow-list.
is_skill_accessible_restricted(s, skill_id, allowed_skills) ==
    IF skill_id \in Range(allowed_skills) THEN Answer("", TRUE, 0)
    ELSE AnyAllowed(s, skill_id, allowed_skills, 1)

is_skill_accessible(s, skill_id, allowed_skills) ==
    IF allowed_skills = <<>> THEN Answer("", TRUE, 0)
    ELSE IF skill_id \in Range(allowed_skills) THEN Answer("", TRUE, 0)
    ELSE AnyAllowed(s, skill_id, allowed_skills, 1)

\* Python's str order (by code point) on the ids of the model.
StrRank(id) ==
    CASE id = ""  -> 0
      [] id = "A" -> 1
      [] id = "B" -> 2
      [] id = "C" -> 3
      [] id = "Z" -> 4

\* sorted(result): ascending, the least remaining id first.
RECURSIVE sorted(_)
sorted(ids) ==
    IF ids = {} THEN <<>>
    ELSE LET least == CHOOSE x \in ids : \A y \in ids : StrRank(x) <= StrRank(y)
         IN  <<least>> \o sorted(ids \ {least})

\* The child loop of get_all_descendants that marks a new child as found but
\* does not put it on the stack.
RECURSIVE PushChildren_Unstacked(_, _, _, _)
PushChildren_Unstacked(subs, i, result, stack) ==
    IF i > Len(subs) THEN [result |-> result, stack |-> stack]
    ELSE PushChildren_Unstacked(subs, i + 1, result \cup {subs[i]}, stack)

\* The child loop of get_all_descendants over subs[i..]: a child not yet in
\* result is added to it and pushed on the stack.
RECURSIVE PushChildren(_, _, _, _)
PushChildren(subs, i, result, stack) ==
    IF i > Len(subs) THEN [result |-> result, stack |-> stack]
    ELSE IF subs[i] \in result THEN PushChildren(subs, i + 1, result, stack)
    ELSE PushChildren(subs, i + 1, result \cup {subs[i]}, Append(stack, subs[i]))

\* The while loop of get_all_descendants: pops the last id of the stack until
\* the stack is empty.  turns counts the iterations made so far.
RECURSIVE DescendantsLoop(_, _, _, _)
DescendantsLoop(s, result, stack, turns) ==
    IF stack = <<>> THEN [raised |-> "", value |-> result, turns |-> turns]
    ELSE LET current == stack[Len(stack)]
             rest    == SubSeq(stack, 1, Len(stack) - 1)
             doc     == get_by_id(s, current, {"sub_skills"})
         IN  IF ~IsOk(doc) THEN [raised |-> doc.raised, value |-> {}, turns |-> turns + 1]
             ELSE IF doc.value = None THEN DescendantsLoop(s, result, rest, turns + 1)
             ELSE LET p == PushChildren(doc.value[1].sub_skills, 1, result, rest) IN
                  DescendantsLoop(s, p.result, p.stack, turns + 1)

\* AuthService.get_all_descendants: [raised, value, turns].
get_all_descendants(s, skill_ids) ==
    LET r == DescendantsLoop(s, Range(skill_ids), skill_ids, 0) IN
    [raised |-> r.raised,
     value  |-> IF r.raised = "" THEN sorted(r.value) ELSE <<>>,
     turns  |-> r.turns]

\* --------------------------------------------------------------- MCPAdapter

\* bool(s.get("sub_skills")).
HasChildren(s) == "sub_skills" \in DOMAIN s /\ s.sub_skills # <<>>

\* s.get("skill_id") or s.get("id").
SkillIdOrId(s) ==
    IF "skill_id" \in DOMAIN s /\ s.skill_id # "" THEN s.skill_id
    ELSE IF "id" \in DOMAIN s /\ s.id # "" THEN s.id
    ELSE None

format_discovery(skills) ==
    [type    |-> "skill_discovery",
     results |-> [i \in 1..Len(skills) |->
                    [skill_id     |-> SkillIdOrId(skills[i]),
                     summary      |-> skills[i].summary,
                     has_children |-> HasChildren(skills[i]),
                     score        |-> skills[i].score]]]

format_instruction(skill) ==
    [type       |-> "skill_instruction",
     skill_id   |-> skill.skill_id,
     summary    |-> skill.summary,
     content    |-> skill.instruction,
     sub_skills |-> skill.sub_skills]

format_sub_skills(children) ==
    [type     |-> "skill_children",
     children |-> [i \in 1..Len(children) |->
                    [skill_id     |-> children[i].skill_id,
                     summary      |-> children[i].summary,
                     has_children |-> HasChildren(children[i])]]]

\* {"content": [{"type": "text", "text": text}]}.  A rendered text is the
\* sequence of its lines, a line the tuple of the values formatted into it.
Content(text) == [content |-> <<[type |-> "text", text |-> text]>>]

format_discovery_content(skills) ==
    Content(IF skills = <<>> THEN <<<<"No matching skills found.">>>>
            ELSE [i \in 1..Len(skills) |->
                    <<i, skills[i].skill_id, skills[i].score, HasChildren(skills[i]),
                      skills[i].summary>>])

format_instruction_content(skill) ==
    Content(IF skill.instruction # "" THEN <<<<skill.instruction>>>>
            ELSE <<<<"_No instruction available._">>>>)

format_sub_skills_content(children) ==
    Content(IF children = <<>> THEN <<<<"No child skills found.">>>>
            ELSE [i \in 1..Len(children) |->
                    <<children[i].skill_id, children[i].summary,
                      IF HasChildren(children[i]) THEN "folder" ELSE "leaf">>])

\* ------------------------------------------------------------- MCPToolRouter

\* A router answer: the dict returned (or the exception raised) and the calls
\* made on the orchestrator to compute it.
Routed(raised, value, calls) == [raised |-> raised, value |-> value, calls |-> calls]

\* The k of a tool call without k, on the legacy and on the JSON-RPC path.
FindDefaultK == 3

McpDefaultK == 3

\* _find(args); args["query"] raises KeyError when the key is absent.
_find(s, args, order) ==
    IF "query" \notin DOMAIN args THEN Routed("KeyError", None, <<>>)
    ELSE LET query   == args.query
             k       == IF "k" \in DOMAIN args THEN args.k ELSE FindDefaultK
             results == discover(s, query, k, order)
             calls   == <<<<"discover", query, k>>>>
         IN  IF ~IsOk(results) THEN Routed(results.raised, None, calls)
             ELSE Routed("", format_discovery(results.value), calls)

_load(s, args) ==
    IF "skill_id" \notin DOMAIN args THEN Routed("KeyError", None, <<>>)
    ELSE LET skill == get_skill(s, args.skill_id, TRUE)
             calls == <<<<"get_skill", args.skill_id, TRUE>>>>
         IN  IF ~IsOk(skill) THEN Routed(skill.raised, None, calls)
             ELSE IF skill.value = None
             THEN Routed("", [error |-> <<"Skill '", args.skill_id, "' not found.">>], calls)
             ELSE Routed("", format_instruction(skill.value[1]), calls)

_list_children(s, args) ==
    IF "skill_id" \notin DOMAIN args THEN Routed("KeyError", None, <<>>)
    ELSE LET children == get_sub_skills(s, args.skill_id)
             calls    == <<<<"get_sub_skills", args.skill_id>>>>
         IN  IF ~IsOk(children) THEN Routed(children.raised, None, calls)
             ELSE Routed("", format_sub_skills(children.value), calls)

call_tool(s, name, arguments, order) ==
    IF name = "find_relevant_skill" THEN _find(s, arguments, order)
    ELSE IF name = "load_instruction" THEN _load(s, arguments)
    ELSE IF name = "list_sub_skills" THEN _list_children(s, arguments)
    ELSE Routed("", [error |-> <<"Unknown tool: ", name>>], <<>>)

\* d.get(key): <<value>>, or None when the key is absent.
Get(d, key) == IF key \in DOMAIN d THEN <<d[key]>> ELSE None

\* `not x` for x = d.get(key), a string or None.
Falsy(x) == x = None \/ x[1] = ""

\* The text of a string or of None in an f-string.
Str(x) == IF x = None THEN "None" ELSE x[1]

\* The missing-argument answer shaped as content instead of as an error.
MissingArgument_AsContent(key) ==
    [content |-> <<[type |-> "text", text |-> <<"Missing required argument: '", key, "'">>]>>]

MissingArgument(key) == [error |-> <<"Missing required argument: '", key, "'">>]

_call_tool_mcp(s, name, arguments, order) ==
    IF name = "find_relevant_skill" THEN
        LET query == Get(arguments, "query") IN
        IF Falsy(query) THEN Routed("", MissingArgument("query"), <<>>)
        ELSE LET k       == IF "k" \in DOMAIN arguments THEN arguments.k ELSE McpDefaultK
                 results == discover(s, query[1], k, order)
                 calls   == <<<<"discover", query[1], k>>>>
             IN  IF ~IsOk(results) THEN Routed(results.raised, None, calls)
                 ELSE Routed("", format_discovery_content(results.value), calls)
    ELSE IF name = "load_instruction" THEN
        LET skill_id == Get(arguments, "skill_id") IN
        IF Falsy(skill_id) THEN Routed("", MissingArgument("skill_id"), <<>>)
        ELSE LET skill == get_skill(s, skill_id[1], TRUE)
                 calls == <<<<"get_skill", skill_id[1], TRUE>>>>
             IN  IF ~IsOk(skill) THEN Routed(skill.raised, None, calls)
                 ELSE IF skill.value = None
                 THEN Routed("", [error |-> <<"Skill '", skill_id[1], "' not found.">>], calls)
                 ELSE Routed("", format_instruction_content(skill.value[1]), calls)
    ELSE IF name = "list_sub_skills" THEN
        LET skill_id == Get(arguments, "skill_id") IN
        IF Falsy(skill_id) THEN Routed("", MissingArgument("skill_id"), <<>>)
        ELSE LET children == get_sub_skills(s, skill_id[1])
                 calls    == <<<<"get_sub_skills", skill_id[1]>>>>
             IN  IF ~IsOk(children) THEN Routed(children.raised, None, calls)
                 ELSE Routed("", format_sub_skills_content(children.value), calls)
    ELSE Routed("", [error |-> <<"Unknown tool: '", name, "'">>], <<>>)

\* _ok(result) and _err(code, message) of handle_jsonrpc.
RpcOk(rpc_id, result) == [jsonrpc |-> "2.0", id |-> rpc_id, result |-> result]

\* _err that answers with a null id.
RpcErr_NullId(rpc_id, code, message) ==
    [jsonrpc |-> "2.0", id |-> None, error |-> [code |-> code, message |-> message]]

RpcErr(rpc_id, code, message) ==
    [jsonrpc |-> "2.0", id |-> rpc_id, error |-> [code |-> code, message |-> message]]

EmptyDict == [key \in {} |-> <<>>]

\* body.get("params") or {}, params.get("arguments") or {}: the dict under the
\* key, the empty dict when the key is absent.
OrEmptyDict(d, key) == IF key \in DOMAIN d THEN d[key] ELSE EmptyDict

\* MCPAdapter.tool_definitions(): the names and required arguments of the catalogue.
tool_definitions ==
    <<[name |-> "find_relevant_skill", required |-> <<"query">>],
      [name |-> "load_instruction",    required |-> <<"skill_id">>],
      [name |-> "list_sub_skills",     required |-> <<"skill_id">>]>>

\* handle_jsonrpc that hands a tools/call without a name on to the dispatch.
handle_jsonrpc_name_unchecked(s, body, order) ==
    LET rpc_id == Get(body, "id")
        method == IF "method" \in DOMAIN body THEN body.method ELSE ""
        params == OrEmptyDict(body, "params")
    IN  IF method = "tools/call" THEN
            LET name   == Get(params, "name")
                result == _call_tool_mcp(s, Str(name), OrEmptyDict(params, "arguments"), order)
            IN  IF ~IsOk(result) THEN result
                ELSE IF "error" \in DOMAIN result.value
                THEN Routed("", RpcErr(rpc_id, -32603, result.value.error), result.calls)
                ELSE Routed("", RpcOk(rpc_id, result.value), result.calls)
        ELSE Routed("", RpcErr(rpc_id, -32601, <<"Method not found: '", method, "'">>), <<>>)

handle_jsonrpc(s, body, order) ==
    LET rpc_id == Get(body, "id")
        method == IF "method" \in DOMAIN body THEN body.method ELSE ""
        params == OrEmptyDict(body, "params")
    IN  IF method = "initialize" THEN
            Routed("", RpcOk(rpc_id,
                        [protocolVersion |-> "2024-11-05",
                         capabilities    |-> [tools |-> EmptyDict],
                         serverInfo      |-> [name |-> "cloud-agentic-skill",
                                              version |-> "1.0.0"]]), <<>>)
        ELSE IF method = "tools/list" THEN
            Routed("", RpcOk(rpc_id, [tools |-> tool_definitions]), <<>>)
        ELSE IF method = "tools/call" THEN
            LET name == Get(params, "name") IN
            IF Falsy(name)
            THEN Routed("", RpcErr(rpc_id, -32602, <<"Missing required param: 'name'">>), <<>>)
            ELSE LET arguments == OrEmptyDict(params, "arguments")
                     result    == _call_tool_mcp(s, name[1], arguments, order)
                 IN  IF ~IsOk(result) THEN result
                     ELSE IF "error" \in DOMAIN result.value
                     THEN Routed("", RpcErr(rpc_id, -32603, result.value.error), result.calls)
                     ELSE Routed("", RpcOk(rpc_id, result.value), result.calls)
        ELSE Routed("", RpcErr(rpc_id, -32601, <<"Method not found: '", method, "'">>), <<>>)

\* ------------------------------------------------------------------ startup

\* _wait_for_es: retries, and delay and max_delay in units of 1/64 s, in which
\* every delay the loop computes is a whole number.
Retries == 30

InitialDelay == 128

MaxDelay == 1920

\* delay = delay * 1.5, with no cap.
NextDelay_Uncapped(delay) == (delay * 3) \div 2

\* delay = min(delay * 1.5, max_delay).
NextDelay(delay) == Min((delay * 3) \div 2, MaxDelay)

\* The singletons of deps, None until init_services assigns them.
Singletons ==
    {"_es_client", "_orchestrator", "_auth_service", "_api_key_service", "_mcp_router"}

\* The module state of deps before init_services runs: no ping made, every
\* singleton unset.  services: the singletons that are set; reachable: a ping
\* has answered True; error: the exception init_services ended with.
BootStart ==
    [phase |-> "waiting", attempt |-> 0, delay |-> InitialDelay, slept |-> <<>>,
     services |-> {}, reachable |-> FALSE, error |-> ""]

\* init_services has returned after a first ping that succeeded.
BootReady ==
    [phase |-> "ready", attempt |-> 1, delay |-> InitialDelay, slept |-> <<>>,
     services |-> Singletons, reachable |-> TRUE, error |-> ""]

\* One turn of the loop of _wait_for_es on boot record b: the ping, and after a
\* ping that fails the sleep, the new delay and, on the last turn, the
\* RuntimeError of the else clause.
_wait_for_es(b, ping) ==
    IF ping = "true"
    THEN [b EXCEPT !.attempt = @ + 1, !.reachable = TRUE, !.phase = "wiring",
                   !.services = {"_es_client"}]
    ELSE [b EXCEPT !.attempt = @ + 1,
                   !.slept = Append(@, b.delay),
                   !.delay = NextDelay(b.delay),
                   !.phase = IF b.attempt + 1 = Retries THEN "failed" ELSE "waiting",
                   !.error = IF b.attempt + 1 = Retries THEN "RuntimeError" ELSE ""]

\* ------------------------------------------------------------------ users

\* _hash_password / _verify_password: the digest answers only to its password.
_hash_password(password) == <<"bcrypt", password>>

_verify_password(password, hashed) == hashed = _hash_password(password)

\* AuthService.register: the document written and the UserRead returned.
register(u, payload) ==
    LET doc == [username      |-> payload.username,
                password_hash |-> _hash_password(payload.password),
                role          |-> payload.role,
                allowed_skills |-> payload.allowed_skills]
    IN  [users |-> [n \in (DOMAIN u) \cup {payload.username} |->
                       IF n = payload.username THEN doc ELSE u[n]],
         ret   |-> Ok([username |-> payload.username, role |-> payload.role,
                       allowed_skills |-> payload.allowed_skills])]

\* Settings.default_admin_username / default_admin_password.
DefaultAdmin ==
    [username |-> "admin", password |-> "admin", role |-> "admin", allowed_skills |-> <<>>]

\* AuthService.ensure_default_admin: the admin is registered unless present.
ensure_default_admin(u) ==
    IF DefaultAdmin.username \in DOMAIN u THEN u ELSE register(u, DefaultAdmin).users

\* The user index after startup over an empty index.
DefaultUsers == ensure_default_admin(EmptyStore)

\* UserRepository.get_user: the document, or None.
get_user(u, username) == IF username \in DOMAIN u THEN <<u[username]>> ELSE None

\* Settings.secret_key and Settings.access_token_expire_minutes.
SecretKey == "change-me-in-production"

AccessTokenExpireMinutes == 60

\* jwt.encode(payload, secret): the claims and the secret that signed them.
JwtEncode(payload, secret) ==
    [sub |-> payload.sub, role |-> payload.role, scopes |-> payload.scopes,
     exp |-> payload.exp, signed |-> secret]

\* [f"skill:{s}" for s in allowed_skills].
SkillScopes(allowed_skills) ==
    [i \in 1..Len(allowed_skills) |-> <<"skill:", allowed_skills[i]>>]

\* AuthService.authenticate at time now (minutes): a TokenResponse, or None.
authenticate(u, username, password, now) ==
    LET user == get_user(u, username) IN
    IF user = None \/ ~_verify_password(password, user[1].password_hash) THEN None
    ELSE <<[access_token |->
              JwtEncode([sub    |-> username,
                         role   |-> user[1].role,
                         scopes |-> SkillScopes(user[1].allowed_skills),
                         exp    |-> now + AccessTokenExpireMinutes], SecretKey),
            token_type |-> "bearer"]>>

\* AuthService.decode_token at time now: the TokenPayload, or None when
\* jwt.decode raises InvalidTokenError (another signature, not a token) or
\* ExpiredSignatureError.
decode_token(token, now) ==
    IF token.signed # SecretKey \/ token.exp <= now THEN None
    ELSE <<[sub |-> token.sub, role |-> token.role, scopes |-> token.scopes]>>

\* AuthService.list_users.
UserListFields == {"username", "role", "allowed_skills"}

list_users(u, order) == [i \in 1..Len(order) |-> Project(u[order[i]], UserListFields)]

\* AuthService.update_permissions: [users, found].
update_permissions(u, username, allowed_skills) ==
    IF get_user(u, username) = None THEN [users |-> u, found |-> FALSE]
    ELSE [users |-> [u EXCEPT ![username].allowed_skills = allowed_skills],
          found |-> TRUE]

\* AuthService.delete_user: [users, found].
delete_user(u, username) ==
    [users |-> [n \in (DOMAIN u) \ {username} |-> u[n]], found |-> username \in DOMAIN u]

\* ------------------------------------------------------------------ API keys

\* The values secrets.token_urlsafe(48) may return, and with them what a
\* client may present as a key: the stored hash or prefix of a key, a guess.
RawKeys == {"p1-aaa", "p1-bbb", "p2-ccc"}

\* APIKeyService._hash: sha256(raw_key).hexdigest(), one digest per input.
_hash(raw_key) ==
    CASE raw_key = "p1-aaa" -> "5f1c"
      [] raw_key = "p1-bbb" -> "a07e"
      [] raw_key = "p2-ccc" -> "c3d9"
      [] raw_key = "5f1c"   -> "77b2"
      [] raw_key = "p1"     -> "e410"
      [] OTHER              -> "0000"

\* raw_key[:8].
Prefix(raw_key) ==
    CASE raw_key \in {"p1-aaa", "p1-bbb"} -> "p1"
      [] raw_key = "p2-ccc"               -> "p2"
      [] OTHER                            -> raw_key

KeyDocFields == {"key_id", "key_hash", "name", "prefix", "scopes", "created_at"}

\* create_key that also stores the raw key in the document.
create_key_storing_raw(k, payload, raw_key, key_id, now) ==
    LET doc == [key_id |-> key_id, key_hash |-> _hash(raw_key), name |-> payload.name,
                prefix |-> Prefix(raw_key), scopes |-> payload.scopes,
                created_at |-> now, full_key |-> raw_key]
    IN  [keys |-> [i \in (DOMAIN k) \cup {key_id} |-> IF i = key_id THEN doc ELSE k[i]],
         ret  |-> Ok([key_id |-> key_id, name |-> payload.name, prefix |-> Prefix(raw_key),
                      scopes |-> payload.scopes, created_at |-> now,
                      full_key |-> raw_key])]

\* APIKeyService.create_key with raw_key and key_id the values drawn from
\* secrets: [keys, ret], ret the APIKeyCreated.
create_key(k, payload, raw_key, key_id, now) ==
    LET doc == [key_id |-> key_id, key_hash |-> _hash(raw_key), name |-> payload.name,
                prefix |-> Prefix(raw_key), scopes |-> payload.scopes,
                created_at |-> now]
    IN  [keys |-> [i \in (DOMAIN k) \cup {key_id} |-> IF i = key_id THEN doc ELSE k[i]],
         ret  |-> Ok([key_id |-> key_id, name |-> payload.name, prefix |-> Prefix(raw_key),
                      scopes |-> payload.scopes, created_at |-> now,
                      full_key |-> raw_key])]

\* ElasticsearchAPIKeyRepository.get_key_by_hash: the first hit of the term
\* search, or None.
get_key_by_hash(k, key_hash, order) ==
    LET hits == SelectSeq(order, LAMBDA id : k[id].key_hash = key_hash)
    IN  IF hits = <<>> THEN None ELSE <<k[hits[1]]>>

\* validate_key that accepts every key.
validate_key_any(k, raw_key, order) ==
    IF order = <<>> THEN <<[key_id |-> "", scopes |-> <<>>]>> ELSE <<k[order[1]]>>

\* APIKeyService.validate_key.
validate_key(k, raw_key, order) == get_key_by_hash(k, _hash(raw_key), order)

KeyListFields == {"key_id", "name", "prefix", "scopes", "created_at"}

\* APIKeyService.list_keys.
list_keys(k, order) == [i \in 1..Len(order) |-> Project(k[order[i]], KeyListFields)]

\* APIKeyService.revoke_key: [keys, found].
revoke_key(k, key_id) ==
    [keys |-> [i \in (DOMAIN k) \ {key_id} |-> k[i]], found |-> key_id \in DOMAIN k]

\* ------------------------------------------------------------------ deps

\* raise HTTPException(status_code): the status is what the client sees.
HTTPException(status_code) == Raise(status_code)

\* A getter without its assert.
Getter_Unasserted(b, singleton) == Ok(<<singleton>>)

\* get_orchestrator, get_auth, get_api_key_service, get_mcp_router: the
\* singleton, or the AssertionError of `assert ... is not None`.
Getter(b, singleton) ==
    IF singleton \in b.services THEN Ok(<<singleton>>) ELSE Raise("AssertionError")

\* require_token that also looks the token's subject up in the user store and
\* rejects the token of a user that is not stored.
require_token_checking_user(b, authorization, now) ==
    IF ~IsOk(Getter(b, "_auth_service")) THEN Getter(b, "_auth_service")
    ELSE IF authorization = <<>> THEN HTTPException("422")
    ELSE IF authorization[1].scheme # "Bearer" THEN HTTPException("401")
    ELSE LET payload == decode_token(authorization[1].token, now) IN
         IF payload = None THEN HTTPException("401")
         ELSE IF get_user(users, payload[1].sub) = None THEN HTTPException("401")
         ELSE Ok(payload[1])

\* require_token.  authorization: <<[scheme, token]>>, or <<>> when the header
\* is absent, which the Header(...) declaration answers with 422.
require_token(b, authorization, now) ==
    IF ~IsOk(Getter(b, "_auth_service")) THEN Getter(b, "_auth_service")
    ELSE IF authorization = <<>> THEN HTTPException("422")
    ELSE IF authorization[1].scheme # "Bearer" THEN HTTPException("401")
    ELSE LET payload == decode_token(authorization[1].token, now) IN
         IF payload = None THEN HTTPException("401") ELSE Ok(payload[1])

\* require_admin that admits every decoded token.
require_admin_any_role(b, authorization, now) == require_token(b, authorization, now)

require_admin(b, authorization, now) ==
    LET payload == require_token(b, authorization, now) IN
    IF ~IsOk(payload) THEN payload
    ELSE IF payload.value.role # "admin" THEN HTTPException("403")
    ELSE payload

\* require_api_key.  x_api_key: <<key>>, or <<>> when the header is absent.
require_api_key(b, k, x_api_key, order) ==
    IF ~IsOk(Getter(b, "_api_key_service")) THEN Getter(b, "_api_key_service")
    ELSE IF x_api_key = <<>> THEN HTTPException("422")
    ELSE LET key_doc == validate_key(k, x_api_key[1], order) IN
         IF key_doc = None THEN HTTPException("401") ELSE Ok(key_doc[1])

\* ------------------------------------------------------------------ inputs

CrudIds == {"A", ""}

CrudPayloads ==
    [skill_id    : CrudIds,
     summary     : {"s1", "s2"},
     is_folder   : BOOLEAN,
     sub_skills  : {<<>>, <<"B">>},
     instruction : {"", "i1"}]

Queries == {"q1", "q2"}

Ks == 0..MaxK

\* ------------------------------------------------------------------ actions

Idle == [op |-> "none", args |-> <<>>, raised |-> "", value |-> <<>>, aux |-> <<>>]

Called(op, args, r, aux) ==
    [op |-> op, args |-> args, raised |-> r.raised, value |-> r.value, aux |-> aux]

\* The frame of a resolve call in flight: its locals (query, entry, skill, the
\* sub_skills and children of get_sub_skills, the loop index i) and its
\* history: the ids stored when it began (start), the ids deleted since (gone)
\* and that set as it was at the fetch read, at the parent read and at each
\* child read.
NoResolve ==
    [query |-> "", entry |-> <<>>, skill |-> <<>>, subs |-> <<>>, children |-> <<>>,
     i |-> 0, start |-> {}, gone |-> {}, gone_fetch |-> {}, gone_list |-> {},
     gone_child |-> <<>>]

Init ==
    /\ store = EmptyStore
    /\ latest = EmptyStore
    /\ ret = Idle
    /\ pc = "idle"
    /\ rs = NoResolve
    /\ users = DefaultUsers
    /\ keys = EmptyStore
    /\ issued = EmptyStore
    /\ boot = BootReady

\* POST /skills, PUT /skills/{id}.  aux: the summary this upsert replaced, if any.
CreateOrUpdateSkill(payload) ==
    LET c == create_or_update_skill(store, payload) IN
    /\ store' = c.store
    /\ latest' = [i \in (DOMAIN latest) \cup {payload.skill_id} |->
                    IF i = payload.skill_id THEN payload ELSE latest[i]]
    /\ ret' = Called("create_or_update_skill", <<payload>>, c.ret,
                     IF payload.skill_id \in DOMAIN store
                     THEN <<store[payload.skill_id].summary>> ELSE <<>>)
    /\ UNCHANGED <<pc, rs, gate>>

\* DELETE /skills/{id}.  A resolve call in flight notes the id as gone.
DeleteSkill(skill_id) ==
    LET d == delete_skill(store, skill_id) IN
    /\ store' = d.store
    /\ latest' = [i \in (DOMAIN latest) \ {skill_id} |-> latest[i]]
    /\ ret' = Called("delete_skill", <<skill_id>>, d.ret, <<>>)
    /\ rs' = IF pc # "idle" /\ skill_id \in DOMAIN store
             THEN [rs EXCEPT !.gone = @ \cup {skill_id}] ELSE rs
    /\ UNCHANGED <<pc, gate>>

\* GET /skills/{id}.
GetSkill(skill_id, include_instruction) ==
    /\ ret' = Called("get_skill", <<skill_id, include_instruction>>,
                     get_skill(store, skill_id, include_instruction), <<>>)
    /\ UNCHANGED <<store, latest, pc, rs, gate>>

\* GET /skills.
ListSkills ==
    \E order \in Orders(store) :
        /\ ret' = Called("list_skills", <<>>, list_skills(store, order), <<>>)
        /\ UNCHANGED <<store, latest, pc, rs, gate>>

\* GET /skills/search.
Discover(query, k) ==
    \E order \in RankedOrders(store, encode(query)) :
        /\ ret' = Called("discover", <<query, k>>, discover(store, query, k, order), <<>>)
        /\ UNCHANGED <<store, latest, pc, rs, gate>>

\* GET /health.
Health(ping) ==
    /\ ret' = Called("health", <<ping>>, health(ping), <<>>)
    /\ UNCHANGED <<store, latest, pc, rs, gate>>

Next ==
    \/ \E ping \in PingOutcomes : Health(ping)
    \/ \E payload \in CrudPayloads : CreateOrUpdateSkill(payload)
    \/ \E skill_id \in CrudIds \cup {"B"} : DeleteSkill(skill_id)
    \/ \E skill_id \in CrudIds \cup {"B"}, inc \in BOOLEAN : GetSkill(skill_id, inc)
    \/ ListSkills
    \/ \E query \in Queries, k \in Ks : Discover(query, k)

Spec == Init /\ [][Next]_vars

\* ------------------------------------------------------- the tree specification

TreeIds == {"A", "B", "C"}

\* Lists with no, one and two children, in both orders, with a repeated id, and
\* such that chains, shared children, self-references and cycles can be stored.
TreeSubLists ==
    {<<>>, <<"A">>, <<"B">>, <<"C">>, <<"B", "C">>, <<"C", "B">>, <<"B", "B">>}

TreePayloads ==
    [skill_id    : TreeIds,
     summary     : {"s1"},
     is_folder   : BOOLEAN,
     sub_skills  : TreeSubLists,
     instruction : {""}]

\* GET /skills/{id}/children.
GetSubSkills(skill_id) ==
    /\ ret' = Called("get_sub_skills", <<skill_id>>, get_sub_skills(store, skill_id), <<>>)
    /\ UNCHANGED <<store, latest, pc, rs, gate>>

\* GET /skills/tree.
BuildTree ==
    \E order \in Orders(store) :
        /\ ret' = Called("build_tree", <<>>, build_tree(store, order), <<>>)
        /\ UNCHANGED <<store, latest, pc, rs, gate>>

NextTree ==
    \/ \E payload \in TreePayloads : CreateOrUpdateSkill(payload)
    \/ \E skill_id \in TreeIds : DeleteSkill(skill_id)
    \/ \E skill_id \in TreeIds : GetSubSkills(skill_id)
    \/ BuildTree

SpecTree == Init /\ [][NextTree]_vars

\* ------------------------------------------------- the permission specification

\* Graphs over three ids with dangling references, self-references and cycles;
\* only A may have two children, which keeps the walk of a cyclic store short.
PermPayloads ==
    {p \in [skill_id    : TreeIds,
            summary     : {"s1"},
            is_folder   : {FALSE},
            sub_skills  : {<<>>, <<"A">>, <<"B">>, <<"C">>, <<"B", "C">>},
            instruction : {""}] :
        Len(p.sub_skills) = 2 => p.skill_id = "A"}

\* Targets: the stored ids and two ids no payload ever stores.
PermTargets == TreeIds \cup {"Z", ""}

AllowLists == {<<>>, <<"A">>, <<"B">>, <<"A", "C">>, <<"Z">>}

\* AuthService.is_skill_accessible.  aux: the number of repository reads.
IsSkillAccessible(skill_id, allowed_skills) ==
    LET a == is_skill_accessible(store, skill_id, allowed_skills) IN
    /\ ret' = Called("is_skill_accessible", <<skill_id, allowed_skills>>,
                     [raised |-> a.raised, value |-> a.value], a.reads)
    /\ UNCHANGED <<store, latest, pc, rs, gate>>

\* Root lists for get_all_descendants: the allow-lists, a list that names an
\* id twice and a list that is not in order.
DescendantRoots == AllowLists \cup {<<"B", "B">>, <<"C", "A">>}

\* AuthService.get_all_descendants.  aux: the iterations of its loop.
GetAllDescendants(skill_ids) ==
    LET d == get_all_descendants(store, skill_ids) IN
    /\ ret' = Called("get_all_descendants", <<skill_ids>>,
                     [raised |-> d.raised, value |-> d.value], d.turns)
    /\ UNCHANGED <<store, latest, pc, rs, gate>>

NextPerm ==
    \/ \E payload \in PermPayloads : CreateOrUpdateSkill(payload)
    \/ \E skill_id \in TreeIds : DeleteSkill(skill_id)
    \/ \E skill_id \in PermTargets, allowed \in AllowLists :
          IsSkillAccessible(skill_id, allowed)
    \/ \E skill_ids \in DescendantRoots : GetAllDescendants(skill_ids)

SpecPerm == Init /\ [][NextPerm]_vars

\* ------------------------------------------------------ the chain specification

\* Length of the longest chain of nested skills.
ChainLen == 13

ChainNames ==
    <<"S1", "S2", "S3", "S4", "S5", "S6", "S7", "S8", "S9", "S10",
      "S11", "S12", "S13", "S14", "S15", "S16">>

\* The payload of link i of a chain of n skills: S_i -> [S_i+1], the last -> [].
ChainPayload(i, n) ==
    [skill_id    |-> ChainNames[i],
     summary     |-> "s1",
     is_folder   |-> i < n,
     sub_skills  |-> IF i < n THEN <<ChainNames[i + 1]>> ELSE <<>>,
     instruction |-> ""]

\* The store after upserting the n skills of the chain S1 -> S2 -> ... -> Sn.
RECURSIVE ChainStore(_, _)
ChainStore(i, n) ==
    IF i = 0 THEN EmptyStore
    ELSE create_or_update_skill(ChainStore(i - 1, n), ChainPayload(i, n)).store

ChainTargets == {ChainNames[i] : i \in 1..ChainLen} \cup {"Z"}

ChainAllowLists == {<<>>, <<"S1">>, <<"S2">>, <<"Z", "S1">>}

InitAuth ==
    /\ store \in {ChainStore(n, n) : n \in 0..ChainLen}
    /\ latest = [id \in DOMAIN store |-> Project(store[id], SkillFields)]
    /\ ret = Idle
    /\ pc = "idle"
    /\ rs = NoResolve
    /\ users = DefaultUsers
    /\ keys = EmptyStore
    /\ issued = EmptyStore
    /\ boot = BootReady

NextAuth ==
    \E skill_id \in ChainTargets, allowed \in ChainAllowLists :
        IsSkillAccessible(skill_id, allowed)

SpecAuth == InitAuth /\ [][NextAuth]_vars

\* -------------------------------------------------------- the MCP specification

McpPayloads ==
    {[skill_id |-> "A", summary |-> "s1", is_folder |-> TRUE,
      sub_skills |-> <<"B">>, instruction |-> "iA"],
     [skill_id |-> "A", summary |-> "s2", is_folder |-> TRUE,
      sub_skills |-> <<"B">>, instruction |-> ""],
     [skill_id |-> "B", summary |-> "s2", is_folder |-> FALSE,
      sub_skills |-> <<>>, instruction |-> "iB"]}

ToolNames == {tool_definitions[i].name : i \in 1..Len(tool_definitions)}

\* Arguments of find_relevant_skill: with and without query and k.
FindArguments ==
    {EmptyDict}
    \cup {[query |-> q] : q \in {"", "q1"}}
    \cup {[k |-> k] : k \in {1, MaxK}}
    \cup {[query |-> q, k |-> k] : q \in {"", "q1"}, k \in {1, MaxK}}

\* Arguments of the two tools that take a skill_id.
IdArguments == {[skill_id |-> id] : id \in {"", "A", "B"}}

ArgumentDicts == FindArguments \cup IdArguments

CallNames == ToolNames \cup {"nonexistent_tool"}

\* The params of a JSON-RPC request: with and without name and arguments.
ParamDicts ==
    {EmptyDict}
    \cup {[name |-> n] : n \in CallNames \cup {""}}
    \cup {[arguments |-> a] : a \in {[query |-> "q1"]}}
    \cup {[name |-> n, arguments |-> a] : n \in CallNames, a \in ArgumentDicts}

RpcMethods == {"initialize", "tools/list", "tools/call", "resources/list", ""}

\* Request bodies: with an id (0 or 7) and without, with and without method and params.
RpcBodies ==
    {[id |-> 7, method |-> m, params |-> p] : m \in RpcMethods, p \in ParamDicts}
    \cup {[method |-> m, params |-> p] : m \in RpcMethods, p \in {EmptyDict, [name |-> "load_instruction"]}}
    \cup {[id |-> i, method |-> m] : i \in {0, 7}, m \in RpcMethods}
    \cup {[id |-> 7, params |-> [name |-> "load_instruction"]]}

\* The request that calls a tool through JSON-RPC.
ToolsCall(name, arguments) ==
    [id |-> 7, method |-> "tools/call", params |-> [name |-> name, arguments |-> arguments]]

\* The orders the search behind a tool call may use.
CallOrders(s, name, arguments) ==
    IF name = "find_relevant_skill" /\ "query" \in DOMAIN arguments
    THEN RankedOrders(s, encode(arguments.query))
    ELSE Orders(s)

\* POST /mcp/tools/call.  aux: the orchestrator calls made.
CallTool(name, arguments) ==
    \E order \in CallOrders(store, name, arguments) :
        LET r == call_tool(store, name, arguments, order) IN
        /\ ret' = Called("call_tool", <<name, arguments>>,
                         [raised |-> r.raised, value |-> r.value], r.calls)
        /\ UNCHANGED <<store, latest, pc, rs, gate>>

\* POST /mcp.  aux: the orchestrator calls made.
HandleJsonrpc(body) ==
    LET params == OrEmptyDict(body, "params") IN
    \E order \in CallOrders(store, Str(Get(params, "name")), OrEmptyDict(params, "arguments")) :
        LET r == handle_jsonrpc(store, body, order) IN
        /\ ret' = Called("handle_jsonrpc", <<body>>,
                         [raised |-> r.raised, value |-> r.value], r.calls)
        /\ UNCHANGED <<store, latest, pc, rs, gate>>

NextMcp ==
    \/ \E payload \in McpPayloads : CreateOrUpdateSkill(payload)
    \/ \E skill_id \in {"A", "B"} : DeleteSkill(skill_id)
    \/ \E name \in CallNames, arguments \in ArgumentDicts : CallTool(name, arguments)
    \/ \E body \in RpcBodies : HandleJsonrpc(body)

SpecMcp == Init /\ [][NextMcp]_vars

\* ---------------------------------------------------- the resolve specification
\* resolve(query) runs as one step per request to the index, and delete_skill
\* calls run between its steps.  Skills are written only while no resolve is in
\* flight, so an id that is gone stays gone until resolve returns.

ResolveIds == {"A", "B", "C"}

ResolvePayloads ==
    {[skill_id |-> "A", summary |-> "s1", is_folder |-> TRUE,
      sub_skills |-> <<"B", "C">>, instruction |-> ""],
     [skill_id |-> "A", summary |-> "s1", is_folder |-> TRUE,
      sub_skills |-> <<>>, instruction |-> "iA"],
     [skill_id |-> "A", summary |-> "s1", is_folder |-> FALSE,
      sub_skills |-> <<"B">>, instruction |-> "iA"],
     [skill_id |-> "B", summary |-> "s2", is_folder |-> FALSE,
      sub_skills |-> <<>>, instruction |-> "iB"],
     [skill_id |-> "B", summary |-> "s1", is_folder |-> TRUE,
      sub_skills |-> <<"C", "Z">>, instruction |-> ""],
     [skill_id |-> "C", summary |-> "s2", is_folder |-> FALSE,
      sub_skills |-> <<>>, instruction |-> "iC"]}

\* resolve returns value (or raises); frame is the call's frame at that point.
Resolved(frame, value) ==
    /\ ret' = Called("resolve", <<frame.query>>, value, frame)
    /\ pc' = "idle"
    /\ rs' = NoResolve
    /\ UNCHANGED <<store, latest, gate>>

NotResolved(message) == Ok([resolved |-> FALSE, message |-> message])

ResolvedFolder(skill, children) ==
    Ok([resolved |-> TRUE, entry |-> skill, children |-> children,
        hint |-> "Pick a sub-skill and call get_skill to load its instruction."])

\* resolve, up to the discovery read.
ResolveDiscover(query) ==
    /\ pc = "idle"
    /\ \E order \in RankedOrders(store, encode(query)) :
        LET discoveries == discover(store, query, 1, order)
            frame == [NoResolve EXCEPT !.query = query, !.start = DOMAIN store]
        IN  IF ~IsOk(discoveries) THEN Resolved(frame, discoveries)
            ELSE IF discoveries.value = <<>>
            THEN Resolved(frame, NotResolved("No matching skill found."))
            ELSE /\ pc' = "fetch"
                 /\ rs' = [frame EXCEPT !.entry = <<discoveries.value[1].skill_id>>]
                 /\ UNCHANGED <<store, latest, ret, gate>>

\* The fetch read of resolve followed by a test of sub_skills alone: a skill
\* that is not a folder but lists sub_skills is answered as a folder.
ResolveFetch_AnySubSkills ==
    /\ pc = "fetch"
    /\ LET skill == get_skill(store, rs.entry[1], TRUE)
           frame == [rs EXCEPT !.gone_fetch = rs.gone]
       IN  IF ~IsOk(skill) THEN Resolved(frame, skill)
           ELSE IF skill.value = None
           THEN Resolved(frame, NotResolved("Skill disappeared after discovery."))
           ELSE IF skill.value[1].sub_skills # <<>>
           THEN /\ pc' = "list"
                /\ rs' = [frame EXCEPT !.skill = skill.value]
                /\ UNCHANGED <<store, latest, ret, gate>>
           ELSE Resolved(frame, Ok([resolved |-> TRUE, skill |-> skill.value[1]]))

\* resolve, the fetch read: get_skill(entry.skill_id).
ResolveFetch ==
    /\ pc = "fetch"
    /\ LET skill == get_skill(store, rs.entry[1], TRUE)
           frame == [rs EXCEPT !.gone_fetch = rs.gone]
       IN  IF ~IsOk(skill) THEN Resolved(frame, skill)
           ELSE IF skill.value = None
           THEN Resolved(frame, NotResolved("Skill disappeared after discovery."))
           ELSE IF skill.value[1].is_folder /\ skill.value[1].sub_skills # <<>>
           THEN /\ pc' = "list"
                /\ rs' = [frame EXCEPT !.skill = skill.value]
                /\ UNCHANGED <<store, latest, ret, gate>>
           ELSE Resolved(frame, Ok([resolved |-> TRUE, skill |-> skill.value[1]]))

\* get_sub_skills called by resolve, the parent read.
ResolveListParent ==
    /\ pc = "list"
    /\ LET parent == get_by_id(store, rs.skill[1].skill_id, {"sub_skills"})
           frame  == [rs EXCEPT !.gone_list = rs.gone]
       IN  IF ~IsOk(parent) THEN Resolved(frame, parent)
           ELSE IF parent.value = None
           THEN Resolved(frame, ResolvedFolder(rs.skill[1], <<>>))
           ELSE /\ pc' = "child"
                /\ rs' = [frame EXCEPT !.subs = parent.value[1].sub_skills, !.i = 1]
                /\ UNCHANGED <<store, latest, ret, gate>>

\* get_sub_skills called by resolve, one turn of the loop: the read of a child.
ResolveChild ==
    /\ pc = "child"
    /\ rs.i <= Len(rs.subs)
    /\ LET child == get_by_id(store, rs.subs[rs.i], ChildFields)
           frame == [rs EXCEPT !.gone_child = Append(@, rs.gone)]
       IN  IF ~IsOk(child) THEN Resolved(frame, child)
           ELSE /\ rs' = [frame EXCEPT
                            !.i = @ + 1,
                            !.children = IF child.value = None THEN @
                                         ELSE Append(@, SkillDiscovery(child.value[1]))]
                /\ UNCHANGED <<store, latest, ret, pc, gate>>

\* The loop of get_sub_skills is over: resolve returns the folder and its children.
ResolveReturn ==
    /\ pc = "child"
    /\ rs.i > Len(rs.subs)
    /\ Resolved(rs, ResolvedFolder(rs.skill[1], rs.children))

NextResolve ==
    \/ \E payload \in ResolvePayloads : pc = "idle" /\ CreateOrUpdateSkill(payload)
    \/ \E skill_id \in ResolveIds : DeleteSkill(skill_id)
    \/ \E query \in Queries : ResolveDiscover(query)
    \/ ResolveFetch
    \/ ResolveListParent
    \/ ResolveChild
    \/ ResolveReturn

SpecResolve == Init /\ [][NextResolve]_vars

\* ------------------------------------------------------- the HTTP specification
\* The routes that write to a store, each behind require_admin, and login.
\* A request carries its Authorization header and is served at a time now.

\* Tokens a client may hold: issued by login to the admin and to a viewer
\* (exp = 0 + 60), and an admin token signed with another secret.
AdminToken ==
    JwtEncode([sub |-> "admin", role |-> "admin", scopes |-> <<>>, exp |-> 60], SecretKey)

ViewerToken ==
    JwtEncode([sub |-> "u1", role |-> "viewer", scopes |-> <<>>, exp |-> 60], SecretKey)

ForgedToken ==
    JwtEncode([sub |-> "admin", role |-> "admin", scopes |-> <<>>, exp |-> 60], "guessed")

Bearer(token) == <<[scheme |-> "Bearer", token |-> token]>>

\* Authorization headers: absent, Bearer with each token, the admin token under
\* another scheme.
Authorizations ==
    {<<>>, Bearer(AdminToken), Bearer(ViewerToken),
     Bearer(ForgedToken), <<[scheme |-> "Basic", token |-> AdminToken]>>}

\* Times of a request, in minutes: before and after the tokens expire.
Times == {0, 61}

HttpSkillPayloads ==
    {[skill_id |-> "A", summary |-> s, is_folder |-> FALSE,
      sub_skills |-> <<>>, instruction |-> "iA"] : s \in {"s1", "s2"}}

HttpUserPayloads ==
    {[username |-> "u1", password |-> "pw", role |-> r, allowed_skills |-> <<>>] :
        r \in {"viewer", "admin"}}

HttpKeyPayloads == {[name |-> "n1", scopes |-> sc] : sc \in {<<>>, <<"B">>}}

KeyIds == {"k1", "k2"}

\* create_key calls a run may make.
MaxIssued == 2

\* The request is answered: r is the handler's return or its HTTPException.
Answered(op, args, r, authorization, now) ==
    ret' = Called(op, args, r, [authorization |-> authorization, now |-> now])

\* The dependencies of an admin route: the service getter, then require_admin.
AdminOnly(getter, authorization, now) ==
    IF ~IsOk(Getter(boot, getter)) THEN Getter(boot, getter)
    ELSE require_admin(boot, authorization, now)

\* POST /skills/ (path_id = payload.skill_id) and PUT /skills/{path_id}.
PutSkill(authorization, now, path_id, payload) ==
    LET admin == AdminOnly("_orchestrator", authorization, now)
        c     == create_or_update_skill(store, payload)
    IN  IF ~IsOk(admin) \/ payload.skill_id # path_id
        THEN /\ Answered("PUT /skills", <<path_id, payload>>,
                         IF ~IsOk(admin) THEN admin ELSE HTTPException("400"),
                         authorization, now)
             /\ UNCHANGED <<store, latest, pc, rs, gate>>
        ELSE /\ store' = c.store
             /\ latest' = [i \in (DOMAIN latest) \cup {payload.skill_id} |->
                             IF i = payload.skill_id THEN payload ELSE latest[i]]
             /\ Answered("PUT /skills", <<path_id, payload>>, c.ret, authorization, now)
             /\ UNCHANGED <<pc, rs, gate>>

\* DELETE /skills/{skill_id}.
DeleteSkillReq(authorization, now, skill_id) ==
    LET admin == AdminOnly("_orchestrator", authorization, now)
        d     == delete_skill(store, skill_id)
    IN  IF ~IsOk(admin)
        THEN /\ Answered("DELETE /skills", <<skill_id>>, admin, authorization, now)
             /\ UNCHANGED <<store, latest, pc, rs, gate>>
        ELSE /\ store' = d.store
             /\ latest' = [i \in (DOMAIN latest) \ {skill_id} |-> latest[i]]
             /\ Answered("DELETE /skills", <<skill_id>>,
                         IF d.ret.value[1] THEN Ok(None) ELSE HTTPException("404"),
                         authorization, now)
             /\ UNCHANGED <<pc, rs, gate>>

\* POST /auth/login.
Login(username, password, now) ==
    LET result == authenticate(users, username, password, now) IN
    /\ Answered("POST /auth/login", <<username, password>>,
                IF ~IsOk(Getter(boot, "_auth_service")) THEN Getter(boot, "_auth_service")
                ELSE IF result = None THEN HTTPException("401") ELSE Ok(result[1]),
                <<>>, now)
    /\ UNCHANGED <<store, latest, pc, rs, gate>>

\* POST /auth/register.
Register(authorization, now, payload) ==
    LET admin == AdminOnly("_auth_service", authorization, now)
        r     == register(users, payload)
    IN  /\ Answered("POST /auth/register", <<payload>>,
                    IF ~IsOk(admin) THEN admin ELSE r.ret, authorization, now)
        /\ users' = IF ~IsOk(admin) THEN users ELSE r.users
        /\ UNCHANGED <<store, latest, pc, rs, keys, issued, boot>>

\* PUT /auth/users/{username}/permissions.
UpdatePermissions(authorization, now, username, allowed_skills) ==
    LET admin == AdminOnly("_auth_service", authorization, now)
        u     == update_permissions(users, username, allowed_skills)
    IN  /\ Answered("PUT /auth/users/permissions", <<username, allowed_skills>>,
                    IF ~IsOk(admin) THEN admin
                    ELSE IF ~u.found THEN HTTPException("404")
                    ELSE Ok([status |-> "updated"]), authorization, now)
        /\ users' = IF ~IsOk(admin) THEN users ELSE u.users
        /\ UNCHANGED <<store, latest, pc, rs, keys, issued, boot>>

\* DELETE /auth/users/{username}.
DeleteUser(authorization, now, username) ==
    LET admin == AdminOnly("_auth_service", authorization, now)
        d     == delete_user(users, username)
    IN  /\ Answered("DELETE /auth/users", <<username>>,
                    IF ~IsOk(admin) THEN admin
                    ELSE IF ~d.found THEN HTTPException("404") ELSE Ok(None),
                    authorization, now)
        /\ users' = IF ~IsOk(admin) THEN users ELSE d.users
        /\ UNCHANGED <<store, latest, pc, rs, keys, issued, boot>>

\* POST /api-keys/.  raw_key and key_id are the values secrets returns, values
\* it has not returned before.
CreateKey(authorization, now, payload, raw_key, key_id) ==
    LET admin == AdminOnly("_api_key_service", authorization, now)
        c     == create_key(keys, payload, raw_key, key_id, now)
    IN  /\ raw_key \notin DOMAIN issued
        /\ key_id \notin DOMAIN keys
        /\ Cardinality(DOMAIN issued) < MaxIssued
        /\ Answered("POST /api-keys", <<payload>>,
                    IF ~IsOk(admin) THEN admin ELSE c.ret, authorization, now)
        /\ keys' = IF ~IsOk(admin) THEN keys ELSE c.keys
        /\ issued' = IF ~IsOk(admin) THEN issued
                      ELSE [r \in (DOMAIN issued) \cup {raw_key} |->
                              IF r = raw_key THEN "stored" ELSE issued[r]]
        /\ UNCHANGED <<store, latest, pc, rs, users, boot>>

\* GET /api-keys/.
ListKeys(authorization, now) ==
    LET admin == AdminOnly("_api_key_service", authorization, now) IN
    \E order \in Orders(keys) :
        /\ Answered("GET /api-keys", <<>>,
                    IF ~IsOk(admin) THEN admin ELSE Ok(list_keys(keys, order)),
                    authorization, now)
        /\ UNCHANGED <<store, latest, pc, rs, gate>>

\* DELETE /api-keys/{key_id}.  The raw key of the document deleted is noted as
\* revoked.
RevokeKey(authorization, now, key_id) ==
    LET admin == AdminOnly("_api_key_service", authorization, now)
        r     == revoke_key(keys, key_id)
    IN  /\ Answered("DELETE /api-keys", <<key_id>>,
                    IF ~IsOk(admin) THEN admin
                    ELSE IF ~r.found THEN HTTPException("404") ELSE Ok(None),
                    authorization, now)
        /\ keys' = IF ~IsOk(admin) THEN keys ELSE r.keys
        /\ issued' = IF IsOk(admin) /\ r.found
                     THEN [raw \in DOMAIN issued |->
                             IF _hash(raw) = keys[key_id].key_hash THEN "revoked"
                             ELSE issued[raw]]
                     ELSE issued
        /\ UNCHANGED <<store, latest, pc, rs, users, boot>>

NextHttp ==
    \/ \E a \in Authorizations, now \in Times, path_id \in {"A", "B"},
          payload \in HttpSkillPayloads : PutSkill(a, now, path_id, payload)
    \/ \E a \in Authorizations, now \in Times, skill_id \in {"A", "B"} :
          DeleteSkillReq(a, now, skill_id)
    \/ \E username \in {"admin", "u1"}, password \in {"admin", "pw"}, now \in Times :
          Login(username, password, now)
    \/ \E a \in Authorizations, now \in Times, payload \in HttpUserPayloads :
          Register(a, now, payload)
    \/ \E a \in Authorizations, now \in Times, username \in {"u1", "zz"},
          allowed_skills \in {<<>>, <<"A">>} :
          UpdatePermissions(a, now, username, allowed_skills)
    \/ \E a \in Authorizations, now \in Times, username \in {"u1", "admin", "zz"} :
          DeleteUser(a, now, username)
    \/ \E a \in Authorizations, now \in Times, payload \in HttpKeyPayloads,
          raw_key \in {"p1-aaa"}, key_id \in {"k1"} :
          CreateKey(a, now, payload, raw_key, key_id)
    \/ \E a \in Authorizations, now \in Times : ListKeys(a, now)
    \/ \E a \in Authorizations, now \in Times, key_id \in KeyIds : RevokeKey(a, now, key_id)

SpecHttp == Init /\ [][NextHttp]_vars

\* ---------------------------------------------------- the API-key specification
\* The /mcp routes, each behind require_api_key, next to the admin's writes of
\* skills and keys.  aux of an /mcp request: the key presented, the key
\* document require_api_key returned, whether the tool router was reached and
\* the orchestrator calls it made.

McpRoutes == {"GET /mcp/tools", "POST /mcp/tools/call", "POST /mcp"}

\* What a client may present as X-API-Key: nothing, a raw key, the stored hash
\* or the stored prefix of a raw key.
PresentedKeys == {<<>>} \cup {<<key>> : key \in RawKeys \cup {"5f1c", "p1"}}

KeyedPayloads ==
    {[skill_id |-> "A", summary |-> "s1", is_folder |-> TRUE,
      sub_skills |-> <<"B">>, instruction |-> "iA"],
     [skill_id |-> "B", summary |-> "s2", is_folder |-> FALSE,
      sub_skills |-> <<>>, instruction |-> "iB"]}

\* Tool calls made with a key.
KeyedCalls ==
    {<<"find_relevant_skill", [query |-> "q1"]>>,
     <<"load_instruction", [skill_id |-> "A"]>>,
     <<"load_instruction", [skill_id |-> "B"]>>,
     <<"list_sub_skills", [skill_id |-> "A"]>>}

KeyedBodies ==
    {ToolsCall(c[1], c[2]) : c \in KeyedCalls} \cup {[id |-> 7, method |-> "tools/list"]}

\* The dependencies of an /mcp route: get_mcp_router, then require_api_key.
KeyOnly(x_api_key, order) ==
    IF ~IsOk(Getter(boot, "_mcp_router")) THEN Getter(boot, "_mcp_router")
    ELSE require_api_key(boot, keys, x_api_key, order)

KeyedAnswer(op, args, key, r, x_api_key) ==
    /\ ret' = Called(op, args,
                     IF ~IsOk(key) THEN key ELSE [raised |-> r.raised, value |-> r.value],
                     [x_api_key |-> x_api_key,
                      key_doc   |-> IF IsOk(key) THEN <<key.value>> ELSE <<>>,
                      reached   |-> IsOk(key),
                      calls     |-> IF IsOk(key) THEN r.calls ELSE <<>>])
    /\ UNCHANGED <<store, latest, pc, rs, gate>>

\* GET /mcp/tools.
McpListTools(x_api_key) ==
    \E korder \in Orders(keys) :
        KeyedAnswer("GET /mcp/tools", <<>>, KeyOnly(x_api_key, korder),
                    Routed("", tool_definitions, <<>>), x_api_key)

\* POST /mcp/tools/call.
McpCallTool(x_api_key, name, arguments) ==
    \E korder \in Orders(keys), order \in CallOrders(store, name, arguments) :
        KeyedAnswer("POST /mcp/tools/call", <<name, arguments>>, KeyOnly(x_api_key, korder),
                    call_tool(store, name, arguments, order), x_api_key)

\* POST /mcp.
McpJsonrpc(x_api_key, body) ==
    LET params == OrEmptyDict(body, "params") IN
    \E korder \in Orders(keys),
       order \in CallOrders(store, Str(Get(params, "name")), OrEmptyDict(params, "arguments")) :
        KeyedAnswer("POST /mcp", <<body>>, KeyOnly(x_api_key, korder),
                    handle_jsonrpc(store, body, order), x_api_key)

NextKeys ==
    \/ \E payload \in KeyedPayloads :
          PutSkill(Bearer(AdminToken), 0, payload.skill_id, payload)
    \/ \E payload \in HttpKeyPayloads, raw_key \in RawKeys, key_id \in KeyIds :
          CreateKey(Bearer(AdminToken), 0, payload, raw_key, key_id)
    \/ ListKeys(Bearer(AdminToken), 0)
    \/ \E key_id \in KeyIds \cup {"zz"} : RevokeKey(Bearer(AdminToken), 0, key_id)
    \/ \E x_api_key \in PresentedKeys : McpListTools(x_api_key)
    \/ \E x_api_key \in PresentedKeys, c \in KeyedCalls : McpCallTool(x_api_key, c[1], c[2])
    \/ \E x_api_key \in PresentedKeys, body \in KeyedBodies : McpJsonrpc(x_api_key, body)

SpecKeys == Init /\ [][NextKeys]_vars

\* ---------------------------------------------------- the startup specification
\* init_services from the first ping on, and calls of the dependency getters at
\* any point of it.

InitBoot ==
    /\ store = EmptyStore
    /\ latest = EmptyStore
    /\ ret = Idle
    /\ pc = "idle"
    /\ rs = NoResolve
    /\ users \in {EmptyStore, DefaultUsers}
    /\ keys = EmptyStore
    /\ issued = EmptyStore
    /\ boot = BootStart

\* init_services, step 1: one turn of the loop of _wait_for_es.
WaitForEs(ping) ==
    /\ boot.phase = "waiting"
    /\ boot.attempt < Retries
    /\ boot' = _wait_for_es(boot, ping)
    /\ UNCHANGED <<store, latest, ret, pc, rs, users, keys, issued>>

\* init_services, steps 2 to 5: the embedding provider, the repositories and
\* their indices, the services and the router; any of the first may raise.
WireServices(outcome) ==
    /\ boot.phase = "wiring"
    /\ boot' = IF outcome = "ok"
               THEN [boot EXCEPT !.phase = "admin", !.services = Singletons]
               ELSE [boot EXCEPT !.phase = "failed", !.error = "Exception"]
    /\ UNCHANGED <<store, latest, ret, pc, rs, users, keys, issued>>

\* init_services, step 6: ensure_default_admin, which may raise.
EnsureDefaultAdmin(outcome) ==
    /\ boot.phase = "admin"
    /\ boot' = IF outcome = "ok" THEN [boot EXCEPT !.phase = "ready"]
               ELSE [boot EXCEPT !.phase = "failed", !.error = "Exception"]
    /\ users' = IF outcome = "ok" THEN ensure_default_admin(users) ELSE users
    /\ UNCHANGED <<store, latest, ret, pc, rs, keys, issued>>

\* get_orchestrator / get_auth / get_api_key_service / get_mcp_router.
GetterCall(singleton) ==
    /\ ret' = Called("getter", <<singleton>>, Getter(boot, singleton), <<>>)
    /\ UNCHANGED <<store, latest, pc, rs, gate>>

NextBoot ==
    \/ \E ping \in PingOutcomes : WaitForEs(ping)
    \/ \E outcome \in {"ok", "raises"} : WireServices(outcome)
    \/ \E outcome \in {"ok", "raises"} : EnsureDefaultAdmin(outcome)
    \/ \E singleton \in Singletons \ {"_es_client"} : GetterCall(singleton)

SpecBoot == InitBoot /\ [][NextBoot]_vars

\* The loop of _wait_for_es runs on: time.sleep returns and ping answers.
SpecBootFair == SpecBoot /\ WF_vars(\E ping \in PingOutcomes : WaitForEs(ping))

\* ------------------------------------------------------------------ claims

NoDuplicateIds(list) ==
    \A i, j \in 1..Len(list) : list[i].skill_id = list[j].skill_id => i = j

\* C1: after any sequence of create_or_update_skill and delete_skill calls the
\* store holds at most one document per skill_id, the document of an id equals
\* the payload of the latest upsert of that id (summary, is_folder, sub_skills,
\* instruction), get_skill returns that payload once the upsert has returned,
\* and list_skills never returns two entries with the same skill_id.
C1_UpsertIdempotence ==
    /\ \A i, j \in DOMAIN store : store[i].skill_id = store[j].skill_id => i = j
    /\ DOMAIN store = DOMAIN latest
    /\ \A id \in DOMAIN store :
        /\ \A f \in SkillFields : store[id][f] = latest[id][f]
        /\ get_skill(store, id, TRUE) = Ok(<<SkillRead(latest[id])>>)
    /\ ret.op = "create_or_update_skill" =>
        get_skill(store, ret.args[1].skill_id, TRUE) = Ok(<<SkillRead(ret.args[1])>>)
    /\ \A order \in Orders(store) : NoDuplicateIds(list_skills(store, order).value)
    /\ ret.op = "list_skills" => NoDuplicateIds(ret.value)

\* C1 witness: an upsert has just overwritten a stored skill that had another
\* summary, and a second skill is stored beside it.
C1_Witness ==
    /\ ret.op = "create_or_update_skill"
    /\ ret.aux # <<>>
    /\ ret.aux[1] # ret.args[1].summary
    /\ store[ret.args[1].skill_id].summary = ret.args[1].summary
    /\ Cardinality(DOMAIN store) = 2

\* C2 (as claimed): discover(q, k) returns at most k results, each carrying a
\* non-empty skill_id of a skill stored at the time of the search and a numeric
\* score.
C2_DiscoveryBound ==
    ret.op = "discover" =>
        /\ Len(ret.value) <= ret.args[2]
        /\ \A i \in 1..Len(ret.value) :
            /\ ret.value[i].skill_id # ""
            /\ ret.value[i].skill_id \in DOMAIN store
            /\ ret.value[i].score \in Int

\* The ids of a list of records, in order.
IdsOf(list) == [i \in 1..Len(list) |-> list[i].skill_id]

\* The entries of subs that name a stored skill, in order.
Existing(s, subs) == SelectSeq(subs, LAMBDA sid : sid \in DOMAIN s)

\* The stored skills no stored skill names in its sub_skills.
RootIds(s) ==
    {id \in DOMAIN s :
        \A p \in DOMAIN s : \A k \in 1..Len(s[p].sub_skills) : s[p].sub_skills[k] # id}

\* The stored skills reachable from the stored skill id by one or more
\* sub_skills references.
RECURSIVE ReachableFrom(_, _, _)
ReachableFrom(s, frontier, seen) ==
    LET next == {c \in DOMAIN s :
                    \E p \in frontier : \E k \in 1..Len(s[p].sub_skills) :
                        s[p].sub_skills[k] = c}
    IN  IF next \subseteq seen THEN seen
        ELSE ReachableFrom(s, next \ seen, seen \cup next)

HasCycle(s) == \E id \in DOMAIN s : id \in ReachableFrom(s, {id}, {})

\* The node is the stored skill of its id and its children are, in order, the
\* stored skills its sub_skills name, each of them such a node again.
RECURSIVE TreeMatches(_, _)
TreeMatches(node, s) ==
    /\ node.skill_id \in DOMAIN s
    /\ node.summary = s[node.skill_id].summary
    /\ node.is_folder = s[node.skill_id].is_folder
    /\ IdsOf(node.children) = Existing(s, s[node.skill_id].sub_skills)
    /\ \A i \in 1..Len(node.children) : TreeMatches(node.children[i], s)

RECURSIVE NodesOf(_)
NodesOf(node) ==
    {node} \cup UNION {NodesOf(node.children[i]) : i \in 1..Len(node.children)}

ExampleABC(s) ==
    /\ DOMAIN s = {"A", "B", "C"}
    /\ s["A"].sub_skills = <<"B", "C">>
    /\ s["B"].sub_skills = <<>>
    /\ s["C"].sub_skills = <<>>

\* C3: when build_tree returns, the roots of the forest are exactly the stored
\* skills that appear in no stored skill's sub_skills, each once, and under
\* every node the children are the stored skills named in its sub_skills,
\* whatever is_folder says; for A -> [B, C], B -> [], C -> [] the forest is the
\* single root A with the childless children B and C.
C3_TreeForest ==
    (ret.op = "build_tree" /\ ret.raised = "") =>
        /\ {ret.value[i].skill_id : i \in 1..Len(ret.value)} = RootIds(store)
        /\ NoDuplicateIds(ret.value)
        /\ \A i \in 1..Len(ret.value) : TreeMatches(ret.value[i], store)
        /\ ExampleABC(store) =>
            /\ Len(ret.value) = 1
            /\ ret.value[1].skill_id = "A"
            /\ IdsOf(ret.value[1].children) = <<"B", "C">>
            /\ \A i \in 1..2 : ret.value[1].children[i].children = <<>>

\* C3 witness: build_tree has returned the forest of A -> [B, C], B -> [],
\* C -> [] where A is not a folder.
C3_Witness ==
    /\ ret.op = "build_tree"
    /\ ret.raised = ""
    /\ ExampleABC(store)
    /\ ~store["A"].is_folder
    /\ Len(ret.value) = 1
    /\ Len(ret.value[1].children) = 2

\* C4: a sub_skills entry that names no stored skill is skipped and causes no
\* error: get_sub_skills(p) returns exactly the children of p that exist (none
\* when p does not exist), build_tree fails only on a cyclic store, and it
\* renders a node whose sub_skills are all dangling as a childless node.
C4_DanglingTolerated ==
    /\ ret.op = "get_sub_skills" =>
        /\ ret.raised = ""
        /\ IdsOf(ret.value) =
             (IF ret.args[1] \in DOMAIN store
              THEN Existing(store, store[ret.args[1]].sub_skills) ELSE <<>>)
    /\ ret.op = "build_tree" =>
        /\ ret.raised # "" => HasCycle(store)
        /\ ret.raised = "" =>
            \A i \in 1..Len(ret.value) : \A n \in NodesOf(ret.value[i]) :
                Existing(store, store[n.skill_id].sub_skills) = <<>> => n.children = <<>>

\* C4 witness: get_sub_skills of a stored parent with one dangling and one
\* stored child has returned the stored child alone.
C4_Witness ==
    /\ ret.op = "get_sub_skills"
    /\ ret.args[1] \in DOMAIN store
    /\ store[ret.args[1]].sub_skills = <<"B", "C">>
    /\ "B" \notin DOMAIN store
    /\ "C" \in DOMAIN store
    /\ IdsOf(ret.value) = <<"C">>

\* C5: is_skill_accessible(skill_id, []) is true for every skill_id and every
\* store content, also for an id that names no stored skill, and it makes no
\* read of the store to decide.
C5_UnrestrictedAccess ==
    (ret.op = "is_skill_accessible" /\ ret.args[2] = <<>>) =>
        /\ ret.raised = ""
        /\ ret.value = TRUE
        /\ ret.aux = 0

\* C5 witness: the empty allow-list has been checked for an id that is not
\* stored, over a store that holds a skill with children.
C5_Witness ==
    /\ ret.op = "is_skill_accessible"
    /\ ret.args[2] = <<>>
    /\ ret.args[1] \notin DOMAIN store
    /\ \E id \in DOMAIN store : store[id].sub_skills # <<>>
    /\ ret.value = TRUE

\* The store is exactly the chain S1 -> S2 -> ... -> Sn, the last skill childless.
IsChain(s, n) == s = ChainStore(n, n)

\* C6 (as claimed): over the chain of 12 nested skills S1 -> ... -> S12,
\* is_skill_accessible(S12, [S1]) returns false.
C6_DepthCappedChain12 ==
    (/\ ret.op = "is_skill_accessible"
     /\ IsChain(store, 12)
     /\ ret.args = <<"S12", <<"S1">>>>) => ret.value = FALSE

\* The caller is told the call failed: an exception, or a dict with an error member.
Failed(r) == r.raised # "" \/ "error" \in DOMAIN r.value

\* C7 (as claimed): for every argument object, find_relevant_skill through
\* call_tool and through JSON-RPC tools/call makes the same discover call (same
\* query, same k, 3 when k is absent) and the two paths agree on whether the
\* call is an error, also for an empty and for a missing query.
C7_ProtocolEquivalence ==
    \A arguments \in FindArguments :
        \A order \in CallOrders(store, "find_relevant_skill", arguments) :
            LET legacy == call_tool(store, "find_relevant_skill", arguments, order)
                rpc    == handle_jsonrpc(store, ToolsCall("find_relevant_skill", arguments), order)
            IN  /\ legacy.calls = rpc.calls
                /\ Failed(legacy) <=> Failed(rpc)

\* The method and the params handle_jsonrpc reads from a request body.
MethodOf(body) == IF "method" \in DOMAIN body THEN body.method ELSE ""

ParamsOf(body) == IF "params" \in DOMAIN body THEN body.params ELSE EmptyDict

IsRpcError(response, code) ==
    /\ "error" \in DOMAIN response
    /\ "result" \notin DOMAIN response
    /\ response.error.code = code

\* C8: call_tool with a name outside the three tools returns the inline object
\* {"error": "Unknown tool: X"} and makes no call on the orchestrator;
\* handle_jsonrpc answers error -32601 to every method other than initialize,
\* tools/list and tools/call, and error -32602 to a tools/call whose params
\* carry no name.
C8_UnknownToolAndMethod ==
    /\ (ret.op = "call_tool" /\ ret.args[1] \notin ToolNames) =>
        /\ ret.raised = ""
        /\ ret.value = [error |-> <<"Unknown tool: ", ret.args[1]>>]
        /\ ret.aux = <<>>
    /\ (ret.op = "handle_jsonrpc"
            /\ MethodOf(ret.args[1]) \notin {"initialize", "tools/list", "tools/call"}) =>
        /\ ret.raised = ""
        /\ IsRpcError(ret.value, -32601)
    /\ (ret.op = "handle_jsonrpc"
            /\ MethodOf(ret.args[1]) = "tools/call"
            /\ "name" \notin DOMAIN ParamsOf(ret.args[1])) =>
        /\ ret.raised = ""
        /\ IsRpcError(ret.value, -32602)
        /\ ret.aux = <<>>

\* C8 witness: a tools/call that carries arguments but no name has been
\* answered with error -32602 while skills are stored.
C8_Witness ==
    /\ ret.op = "handle_jsonrpc"
    /\ MethodOf(ret.args[1]) = "tools/call"
    /\ DOMAIN ParamsOf(ret.args[1]) = {"arguments"}
    /\ DOMAIN store = {"A", "B"}
    /\ IsRpcError(ret.value, -32602)

\* The children a resolve call should list: the sub_skills stored when the call
\* began and not deleted before their read, in order.
RECURSIVE StillThere(_, _)
StillThere(h, i) ==
    IF i > Len(h.subs) THEN <<>>
    ELSE (IF h.subs[i] \in h.start \ h.gone_child[i] THEN <<h.subs[i]>> ELSE <<>>)
         \o StillThere(h, i + 1)

\* C9: under every interleaving of resolve with delete_skill calls, resolve
\* raises nothing; when the discovered skill was deleted between the discovery
\* read and the fetch read it returns resolved = false; when a folder with
\* children was fetched it returns resolved = true with exactly the children
\* that still exist when listed, none of them deleted before the listing began.
C9_ResolveRaceTolerance ==
    ret.op = "resolve" =>
        LET h == ret.aux IN
        /\ ret.raised = ""
        /\ (h.entry # <<>> /\ h.entry[1] \in h.gone_fetch) => ret.value.resolved = FALSE
        /\ h.skill # <<>> =>
            /\ ret.value.resolved = TRUE
            /\ ret.value.entry = h.skill[1]
            /\ IdsOf(ret.value.children) = StillThere(h, 1)
            /\ Range(IdsOf(ret.value.children)) \cap h.gone_list = {}

\* C9 witness: resolve has returned folder A, whose child B was deleted between
\* the fetch and the listing, with the one child left, C.
C9_Witness ==
    /\ ret.op = "resolve"
    /\ ret.aux.skill # <<>>
    /\ ret.aux.skill[1].sub_skills = <<"B", "C">>
    /\ "B" \in ret.aux.gone_list \ ret.aux.gone_fetch
    /\ ret.value.resolved = TRUE
    /\ IdsOf(ret.value.children) = <<"C">>

\* The arguments the catalogue requires of a tool.
RequiredOf(name) ==
    UNION {Range(tool_definitions[i].required) :
             i \in {j \in 1..Len(tool_definitions) : tool_definitions[j].name = name}}

\* C10 (as claimed): call_tool for one of the three tools with a required
\* argument absent returns a caller-visible {"error": ...} object and raises
\* no exception.
C10_LegacyMissingArgument ==
    (/\ ret.op = "call_tool"
     /\ ret.args[1] \in ToolNames
     /\ ~(RequiredOf(ret.args[1]) \subseteq DOMAIN ret.args[2])) =>
        /\ ret.raised = ""
        /\ "error" \in DOMAIN ret.value

\* A required argument counts as missing when it is absent or empty.
ArgMissing(arguments, key) == key \notin DOMAIN arguments \/ arguments[key] = ""

\* The tool-level failures of a call, read off the store and the request, and
\* the message of each.
ToolFailure(s, name, arguments) ==
    \/ name \notin ToolNames
    \/ \E key \in RequiredOf(name) : ArgMissing(arguments, key)
    \/ name = "load_instruction" /\ arguments.skill_id \notin DOMAIN s

ToolMessage(s, name, arguments) ==
    IF name \notin ToolNames THEN <<"Unknown tool: '", name, "'">>
    ELSE IF \E key \in RequiredOf(name) : ArgMissing(arguments, key)
    THEN <<"Missing required argument: '",
           CHOOSE key \in RequiredOf(name) : ArgMissing(arguments, key), "'">>
    ELSE <<"Skill '", arguments.skill_id, "' not found.">>

IsContent(result) ==
    /\ DOMAIN result = {"content"}
    /\ Len(result.content) = 1
    /\ DOMAIN result.content[1] = {"type", "text"}
    /\ result.content[1].type = "text"

\* C11: a JSON-RPC tools/call that carries a name is answered with error
\* -32603 carrying the tool's message exactly when the tool fails (a required
\* argument missing, load_instruction of a skill_id that is not stored, a name
\* outside the three tools), and with a result {"content": [{"type": "text",
\* "text": ...}]} otherwise.
C11_ToolFailureIsInternalError ==
    (/\ ret.op = "handle_jsonrpc"
     /\ MethodOf(ret.args[1]) = "tools/call"
     /\ ~ArgMissing(ParamsOf(ret.args[1]), "name")) =>
        LET name      == ParamsOf(ret.args[1]).name
            arguments == OrEmptyDict(ParamsOf(ret.args[1]), "arguments")
        IN  /\ ret.raised = ""
            /\ IF ToolFailure(store, name, arguments)
               THEN /\ IsRpcError(ret.value, -32603)
                    /\ ret.value.error.message = ToolMessage(store, name, arguments)
               ELSE /\ DOMAIN ret.value = {"jsonrpc", "id", "result"}
                    /\ IsContent(ret.value.result)

\* C11 witness: load_instruction of B, which is not stored while A is, has been
\* answered with error -32603 "Skill 'B' not found.".
C11_Witness ==
    /\ ret.op = "handle_jsonrpc"
    /\ MethodOf(ret.args[1]) = "tools/call"
    /\ ParamsOf(ret.args[1]) = [name |-> "load_instruction", arguments |-> [skill_id |-> "B"]]
    /\ DOMAIN store = {"A"}
    /\ IsRpcError(ret.value, -32603)
    /\ ret.value.error.message = <<"Skill '", "B", "' not found.">>

\* C12: every response of handle_jsonrpc has jsonrpc = "2.0", the id of the
\* request (null when the request has none) and exactly one of result and error.
C12_JsonRpcEnvelope ==
    ret.op = "handle_jsonrpc" =>
        /\ ret.raised = ""
        /\ ret.value.jsonrpc = "2.0"
        /\ ret.value.id = Get(ret.args[1], "id")
        /\ ("result" \in DOMAIN ret.value) # ("error" \in DOMAIN ret.value)
        /\ DOMAIN ret.value \subseteq {"jsonrpc", "id", "result", "error"}

\* C12 witness: a request with id 0 has been answered with an error that
\* carries id 0.
C12_Witness ==
    /\ ret.op = "handle_jsonrpc"
    /\ Get(ret.args[1], "id") = <<0>>
    /\ ret.value.id = <<0>>
    /\ "error" \in DOMAIN ret.value
    /\ "result" \notin DOMAIN ret.value

\* The routes behind require_admin.
AdminRoutes ==
    {"PUT /skills", "DELETE /skills", "POST /auth/register",
     "PUT /auth/users/permissions", "DELETE /auth/users", "POST /api-keys",
     "GET /api-keys", "DELETE /api-keys"}

\* The payload of the bearer token of a request record, or None when the
\* request carries no bearer token or the token does not decode.
Decoded(request) ==
    IF request.aux.authorization = <<>> THEN None
    ELSE IF request.aux.authorization[1].scheme # "Bearer" THEN None
    ELSE decode_token(request.aux.authorization[1].token, request.aux.now)

\* C15: a step changes the skill store, the user store or the API-key store
\* only when it serves a request whose bearer token decodes and has role admin;
\* a request to an admin route whose token does not decode is answered 401,
\* one whose token has another role 403, and both leave every store unchanged.
C15_AdminOnlyChanges ==
    [][LET changed == store' # store \/ users' # users \/ keys' # keys
           bearer  == /\ ret'.op \in AdminRoutes
                      /\ ret'.aux.authorization # <<>>
                      /\ ret'.aux.authorization[1].scheme = "Bearer"
       IN  /\ changed =>
                /\ ret'.op \in AdminRoutes
                /\ Decoded(ret') # None
                /\ Decoded(ret')[1].role = "admin"
           /\ (bearer /\ Decoded(ret') = None) => (ret'.raised = "401" /\ ~changed)
           /\ (bearer /\ Decoded(ret') # None /\ Decoded(ret')[1].role # "admin") =>
                (ret'.raised = "403" /\ ~changed)]_vars

\* C15 witness: a DELETE of the stored skill A with a viewer's token has been
\* answered 403 and A is still stored, next to a registered user.
C15_Witness ==
    /\ ret.op = "DELETE /skills"
    /\ ret.args = <<"A">>
    /\ ret.aux.authorization = Bearer(ViewerToken)
    /\ ret.aux.now = 0
    /\ ret.raised = "403"
    /\ "A" \in DOMAIN store
    /\ "u1" \in DOMAIN users

\* The skills a tool call handed to its caller.
Returned(request) ==
    LET legacy    == request.op = "POST /mcp/tools/call"
        name      == IF legacy THEN request.args[1] ELSE request.args[1].params.name
        arguments == IF legacy THEN request.args[2] ELSE request.args[1].params.arguments
        answer    == IF legacy THEN request.value ELSE
                     IF "result" \in DOMAIN request.value
                     THEN request.value.result ELSE [error |-> ""]
    IN  IF request.raised # "" \/ "error" \in DOMAIN answer THEN {}
        ELSE IF name = "load_instruction" THEN {arguments.skill_id}
        ELSE IF legacy /\ name = "find_relevant_skill"
        THEN {answer.results[i].skill_id : i \in 1..Len(answer.results)}
        ELSE IF legacy
        THEN {answer.children[i].skill_id : i \in 1..Len(answer.children)}
        ELSE LET lines == {l \in Range(answer.content[1].text) : Len(l) > 1} IN
             IF name = "find_relevant_skill" THEN {line[2] : line \in lines}
             ELSE {line[1] : line \in lines}

\* C13 (as claimed): a tool call made through either adapter with an API key
\* whose scopes list is not empty returns only skills s for which
\* is_skill_accessible(s, scopes) is true.
C13_PermissionFiltered ==
    (/\ ret.op \in {"POST /mcp/tools/call", "POST /mcp"}
     /\ ret.aux.reached
     /\ ret.aux.key_doc[1].scopes # <<>>
     /\ ret.op = "POST /mcp" => MethodOf(ret.args[1]) = "tools/call") =>
        \A s \in Returned(ret) :
            is_skill_accessible(store, s, ret.aux.key_doc[1].scopes).value

\* The strings a key document or a key listing entry holds.
StringsOf(doc) == {doc[f] : f \in (DOMAIN doc) \cap {"key_id", "key_hash", "name", "prefix", "full_key"}}

\* C14: the raw secret of an API key is in the return value of the create_key
\* that generated it and nowhere else: every stored key document holds the
\* hash and the prefix of an issued secret and no secret, and no list_keys or
\* validate_key result holds a secret; the stored hash and prefix, presented
\* as a key, open nothing.
C14_RawSecretOnlyAtCreation ==
    /\ \A id \in DOMAIN keys :
        /\ DOMAIN keys[id] = KeyDocFields
        /\ \E raw_key \in DOMAIN issued :
            /\ keys[id].key_hash = _hash(raw_key)
            /\ keys[id].prefix = Prefix(raw_key)
        /\ StringsOf(keys[id]) \cap DOMAIN issued = {}
    /\ (ret.op = "POST /api-keys" /\ ret.raised = "") =>
        /\ ret.value.full_key \in DOMAIN issued
        /\ \A id \in DOMAIN keys : keys[id].key_hash = _hash(ret.value.full_key) =>
                                      id = ret.value.key_id
    /\ (ret.op = "GET /api-keys" /\ ret.raised = "") =>
        \A i \in 1..Len(ret.value) :
            /\ DOMAIN ret.value[i] = KeyListFields
            /\ StringsOf(ret.value[i]) \cap DOMAIN issued = {}
    /\ (ret.op \in McpRoutes /\ ret.aux.reached) =>
        /\ DOMAIN ret.aux.key_doc[1] = KeyDocFields
        /\ StringsOf(ret.aux.key_doc[1]) \cap DOMAIN issued = {}
        /\ ret.aux.x_api_key[1] \in DOMAIN issued

\* C14 witness: list_keys has listed a key created before, by its prefix.
C14_Witness ==
    /\ ret.op = "GET /api-keys"
    /\ ret.raised = ""
    /\ Len(ret.value) = 1
    /\ ret.value[1].prefix = "p1"
    /\ "p1-aaa" \in DOMAIN issued

\* Some stored key document has the hash of the key presented.
Stored(x_api_key) ==
    /\ x_api_key # <<>>
    /\ \E id \in DOMAIN keys : keys[id].key_hash = _hash(x_api_key[1])

\* C16: a request to an /mcp route reaches the tool router exactly when its
\* X-API-Key hashes to the key_hash of a key document stored at that moment,
\* and is answered 401 when it presents a key that does not; once a revoke_key
\* has deleted the document of a key, every later request presenting that key
\* is answered 401; revoke_key of an unknown key_id reports not found and
\* leaves the key store unchanged.
C16_ApiKeyGate ==
    [][/\ ret'.op \in McpRoutes =>
            /\ ret'.aux.reached <=> Stored(ret'.aux.x_api_key)
            /\ (ret'.aux.x_api_key # <<>> /\ ~Stored(ret'.aux.x_api_key)) =>
                    ret'.raised = "401"
            /\ ~ret'.aux.reached => ret'.aux.calls = <<>>
            /\ \A raw_key \in DOMAIN issued :
                (issued[raw_key] = "revoked" /\ ret'.aux.x_api_key = <<raw_key>>) =>
                    (ret'.raised = "401" /\ ~ret'.aux.reached)
       /\ (ret'.op = "DELETE /api-keys" /\ ret'.aux.authorization = Bearer(AdminToken)) =>
            /\ ret'.raised = "" <=> ret'.args[1] \in DOMAIN keys
            /\ ret'.args[1] \notin DOMAIN keys => (ret'.raised = "404" /\ keys' = keys)
            /\ ret'.args[1] \in DOMAIN keys =>
                    \E raw_key \in DOMAIN issued :
                        /\ _hash(raw_key) = keys[ret'.args[1]].key_hash
                        /\ issued'[raw_key] = "revoked"]_vars

\* C16 witness: a call with a key that was created and then revoked has been
\* answered 401 while another key is stored.
C16_Witness ==
    /\ ret.op = "POST /mcp/tools/call"
    /\ ret.aux.x_api_key = <<"p1-aaa">>
    /\ "p1-aaa" \in DOMAIN issued
    /\ issued["p1-aaa"] = "revoked"
    /\ ~Stored(<<"p1-aaa">>)
    /\ Stored(<<"p2-ccc">>)
    /\ ret.raised = "401"

\* C20: delete_skill(id) returns true exactly when id was stored before the
\* call; after it id is not found and every other document is as it was: the
\* children of the deleted skill stay stored and the sub_skills of its parents
\* still name it.  A false return leaves the whole store unchanged.
C20_DeleteFrame ==
    [][ret'.op = "delete_skill" =>
        LET id == ret'.args[1] IN
        /\ ret'.raised = ""
        /\ ret'.value[1] <=> id \in DOMAIN store
        /\ get_skill(store', id, TRUE).value = None
        /\ DOMAIN store' = (DOMAIN store) \ {id}
        /\ \A other \in DOMAIN store' : store'[other] = store[other]
        /\ ~ret'.value[1] => store' = store]_vars

\* C20 witness: B has been deleted; its parent A still names it and its child
\* C is still stored.
C20_Witness ==
    /\ ret.op = "delete_skill"
    /\ ret.args = <<"B">>
    /\ ret.value = <<TRUE>>
    /\ "B" \notin DOMAIN store
    /\ "A" \in DOMAIN store
    /\ "B" \in Range(store["A"].sub_skills)
    /\ "C" \in DOMAIN store
    /\ latest["A"].sub_skills = <<"B">>

\* C17: the singletons are set only after a ping has answered True; a
\* dependency getter raises exactly while its singleton is unset; and when
\* init_services fails with the retry budget exhausted every singleton is unset.
C17_ReadinessGate ==
    /\ [](/\ boot.services # {} =>
                (boot.reachable /\ Len(boot.slept) = boot.attempt - 1)
          /\ ~boot.reachable => boot.phase \in {"waiting", "failed"}
          /\ boot.error = "RuntimeError" =>
                /\ boot.phase = "failed"
                /\ boot.attempt = Retries
                /\ boot.services = {})
    /\ [][(ret'.op = "getter" /\ boot' = boot) =>
            /\ ret'.raised = "AssertionError" <=> ret'.args[1] \notin boot.services
            /\ ret'.raised = "" => boot.reachable]_vars

\* C17 witness: init_services has failed with the retries exhausted and
\* get_orchestrator has raised.
C17_Witness ==
    /\ boot.error = "RuntimeError"
    /\ boot.attempt = Retries
    /\ ret.op = "getter"
    /\ ret.args = <<"_orchestrator">>
    /\ ret.raised = "AssertionError"

\* C18: _wait_for_es terminates: it makes at most 30 pings, returns after the
\* first ping that answers True without a sleep after it, raises RuntimeError
\* when 30 pings have failed (a ping that raises is a failed one), and the
\* delays slept start at 2.0 s, never decrease and never exceed 30 s.
C18_WaitTerminates ==
    /\ [](/\ boot.attempt <= Retries
          /\ Len(boot.slept) = (IF boot.reachable THEN boot.attempt - 1 ELSE boot.attempt)
          /\ boot.phase = "waiting" => ~boot.reachable
          /\ boot.error = "RuntimeError" <=> (~boot.reachable /\ boot.attempt = Retries)
          /\ Len(boot.slept) > 0 => boot.slept[1] = 128
          /\ \A i \in 1..Len(boot.slept) :
                /\ boot.slept[i] <= 1920
                /\ i > 1 => boot.slept[i - 1] <= boot.slept[i])
    /\ <>(boot.phase # "waiting")

\* C18 witness: the loop has slept the capped delay and then seen the store up.
C18_Witness ==
    /\ boot.reachable
    /\ boot.attempt = 12
    /\ Len(boot.slept) = 11
    /\ boot.slept[11] = 1920
    /\ boot.slept[7] = 1458

\* C19: health() raises nothing and returns a status object: elasticsearch is
\* "ok" when the ping answers True and "unreachable" when it answers False or
\* raises, in both cases with the embedding dimensionality.
C19_HealthNeverRaises ==
    ret.op = "health" =>
        /\ ret.raised = ""
        /\ DOMAIN ret.value = {"elasticsearch", "embedding_model", "embedding_dims"}
        /\ ret.value.elasticsearch = (IF ret.args[1] = "true" THEN "ok" ELSE "unreachable")
        /\ ret.value.embedding_dims = EmbeddingDims

\* C19 witness: with skills stored and the ping raising, health has reported
\* the store unreachable.
C19_Witness ==
    /\ ret.op = "health"
    /\ ret.args = <<"raises">>
    /\ ret.value.elasticsearch = "unreachable"
    /\ DOMAIN store # {}

\* The ids at most n sub_skills levels below the ids of roots, the roots
\* themselves (level 0) included.
RECURSIVE WithinLevels(_, _, _)
WithinLevels(s, roots, n) ==
    IF n = 0 THEN roots
    ELSE LET up == WithinLevels(s, roots, n - 1) IN
         up \cup UNION {Range(s[p].sub_skills) : p \in up \cap DOMAIN s}

\* C21 (as claimed): with a non-empty allow-list is_skill_accessible returns
\* without an error, true for a target in the allow-list or at most 10
\* sub_skills levels below an allow-listed skill, and false for a target that
\* every path from every allow-listed skill reaches only after more than 10
\* levels (or not at all).
C21_DepthCapTen ==
    (ret.op = "is_skill_accessible" /\ ret.args[2] # <<>>) =>
        /\ ret.raised = ""
        /\ ret.value <=> ret.args[1] \in WithinLevels(store, Range(ret.args[2]), DepthCap)

\* The longest sub_skills list of the store.
MaxFanout(s) ==
    IF DOMAIN s = {} THEN 0
    ELSE LET widest == CHOOSE p \in DOMAIN s :
                          \A q \in DOMAIN s : Len(s[q].sub_skills) <= Len(s[p].sub_skills)
         IN  Len(s[widest].sub_skills)

\* 1 + f + f^2 + ... + f^levels: the calls of a descent through the given
\* number of levels below its start in which every skill has f children.
RECURSIVE WalkReads(_, _)
WalkReads(f, levels) == IF levels = 0 THEN 1 ELSE 1 + f * WalkReads(f, levels - 1)

\* C22: is_skill_accessible terminates for every store and every allow-list,
\* also over a store whose sub_skills graph has cycles or self-references: the
\* call returns a boolean, no recursion error, after at most as many reads as
\* descents from each allow-listed id through depths 0..10 can make.
C22_WalkTerminates ==
    ret.op = "is_skill_accessible" =>
        /\ ret.raised = ""
        /\ ret.value \in BOOLEAN
        /\ ret.aux <= Len(ret.args[2]) * WalkReads(MaxFanout(store), DepthCap)

\* C22 witness: over a store with a cycle a check that found nothing has
\* returned false after descending to the depth cap.
C22_Witness ==
    /\ ret.op = "is_skill_accessible"
    /\ HasCycle(store)
    /\ ret.args[2] # <<>>
    /\ ret.raised = ""
    /\ ret.value = FALSE
    /\ ret.aux > DepthCap

\* C23 (as claimed): over every store whose sub_skills graph contains a cycle
\* build_tree recurses without bound and does not return.
C23_CycleNeverReturns ==
    (ret.op = "build_tree" /\ HasCycle(store)) => ret.raised = "RecursionError"

\* Some root of the store reaches a skill that lies on a cycle.
CycleBelowRoot(s) ==
    \E r \in RootIds(s) :
        \E id \in ReachableFrom(s, {r}, {}) : id \in ReachableFrom(s, {id}, {})

\* C23 (amended): build_tree recurses without bound exactly over the stores in
\* which a root, a stored skill that no sub_skills list names, reaches a cycle;
\* over a store whose cycles no root reaches it returns.
C23_CycleBelowRootNeverReturns ==
    ret.op = "build_tree" =>
        (ret.raised = "RecursionError" <=> CycleBelowRoot(store))

\* C23 witness: build_tree has failed over a store in which a root reaches a
\* cycle.
C23_Witness ==
    /\ ret.op = "build_tree"
    /\ CycleBelowRoot(store)
    /\ ret.raised = "RecursionError"

\* The number of nodes with the given skill_id in the forest nodes[i..].
RECURSIVE CountInForest(_, _, _)
CountInForest(nodes, i, id) ==
    IF i > Len(nodes) THEN 0
    ELSE (IF nodes[i].skill_id = id THEN 1 ELSE 0)
            + CountInForest(nodes[i].children, 1, id)
            + CountInForest(nodes, i + 1, id)

\* C24 (as claimed): over a store whose sub_skills graph has no cycle
\* build_tree returns, and every stored skill is exactly one node of the
\* returned forest, also a skill that two parents list.
C24_EachNodeOnce ==
    (ret.op = "build_tree" /\ ~HasCycle(store)) =>
        /\ ret.raised = ""
        /\ \A id \in DOMAIN store : CountInForest(ret.value, 1, id) = 1

\* C25: get_all_descendants(roots) terminates over every store, also one with
\* cycles (its loop makes one iteration per root given and one per further id
\* found), and returns in ascending order, each once, exactly the root ids and
\* every id reachable from them through the sub_skills of stored skills; an id
\* that names no stored skill is returned and not expanded.
C25_AllDescendants ==
    ret.op = "get_all_descendants" =>
        LET roots == Range(ret.args[1])
            found == Range(ret.value)
        IN  /\ ret.raised = ""
            /\ \A i, j \in 1..Len(ret.value) :
                 i < j => StrRank(ret.value[i]) < StrRank(ret.value[j])
            /\ found = WithinLevels(store, roots, Cardinality(DOMAIN store) + 1)
            /\ ret.aux = Len(ret.args[1]) + Cardinality(found \ roots)

\* C25 witness: over a store with a cycle get_all_descendants has returned
\* more ids than it was given, one of them the id of no stored skill.
C25_Witness ==
    /\ ret.op = "get_all_descendants"
    /\ HasCycle(store)
    /\ ret.raised = ""
    /\ Len(ret.value) > Len(ret.args[1])
    /\ \E i \in 1..Len(ret.value) : ret.value[i] \notin DOMAIN store

\* C26: with a non-empty allow-list is_skill_accessible grants nothing outside
\* the allow-listed subtrees: a target it answers true for is one of the ids
\* get_all_descendants returns for that allow-list over the same store.
C26_GrantedWithinDescendants ==
    (ret.op = "is_skill_accessible" /\ ret.args[2] # <<>> /\ ret.value = TRUE) =>
        ret.args[1] \in Range(get_all_descendants(store, ret.args[2]).value)

\* C26 witness: access has been granted to a target that is neither in the
\* allow-list nor a child of an allow-listed skill.
C26_Witness ==
    /\ ret.op = "is_skill_accessible"
    /\ ret.args[2] # <<>>
    /\ ret.value = TRUE
    /\ ret.args[1] \notin WithinLevels(store, Range(ret.args[2]), 1)

\* C27: after any sequence of create_or_update_skill calls the vector stored
\* with each skill is the embedding of the summary stored with it, which is the
\* summary of the latest upsert: an upsert that has just returned has stored
\* the embedding of its payload's summary, not a vector of an earlier summary.
C27_VectorFollowsSummary ==
    /\ \A id \in DOMAIN store :
        /\ store[id].skill_desc_vector = encode(store[id].summary)
        /\ store[id].summary = latest[id].summary
    /\ ret.op = "create_or_update_skill" =>
        store[ret.args[1].skill_id].skill_desc_vector = encode(ret.args[1].summary)

\* C27 witness: an upsert has replaced the summary of a stored skill by one
\* with another embedding.
C27_Witness ==
    /\ ret.op = "create_or_update_skill"
    /\ ret.aux # <<>>
    /\ encode(ret.aux[1]) # encode(ret.args[1].summary)
    /\ store[ret.args[1].skill_id].skill_desc_vector = encode(ret.args[1].summary)

\* C28: get_sub_skills(p) returns one record per entry of p's sub_skills that
\* names a stored skill, in the order of the list and as often as the list
\* names it; each record carries the child's skill_id, summary and sub_skills
\* and, of the fields of a skill, nothing else: no instruction, no is_folder
\* (its score member is the default 0).
C28_ChildrenInListOrder ==
    ret.op = "get_sub_skills" =>
        LET subs == IF ret.args[1] \in DOMAIN store
                    THEN Existing(store, store[ret.args[1]].sub_skills) ELSE <<>>
        IN  /\ ret.raised = ""
            /\ Len(ret.value) = Len(subs)
            /\ \A i \in 1..Len(subs) :
                /\ ret.value[i].skill_id = subs[i]
                /\ ret.value[i].summary = store[subs[i]].summary
                /\ ret.value[i].sub_skills = store[subs[i]].sub_skills
                /\ (DOMAIN ret.value[i]) \cap (SkillFields \cup {"skill_desc_vector"}) = ChildFields
                /\ (DOMAIN ret.value[i]) \ SkillFields = {"score"}
                /\ ret.value[i].score = 0

\* C28 witness: get_sub_skills of a parent listing C before B, both stored,
\* has returned C and then B.
C28_Witness ==
    /\ ret.op = "get_sub_skills"
    /\ ret.args[1] \in DOMAIN store
    /\ store[ret.args[1]].sub_skills = <<"C", "B">>
    /\ IdsOf(ret.value) = <<"C", "B">>

\* C29: a resolve(query) call during which no skill was deleted returns
\* resolved = false when discovery yields nothing (the store is empty);
\* otherwise discovery yields a best-scoring stored skill, and resolve returns
\* entry + children + hint exactly when that skill has is_folder = true and a
\* non-empty sub_skills list, the children being those get_sub_skills lists,
\* and {resolved, skill} with the skill itself in every other case, also for a
\* skill that is not a folder and has sub_skills.
C29_ResolveShape ==
    (ret.op = "resolve" /\ ret.aux.gone = {}) =>
        /\ ret.raised = ""
        /\ ret.aux.entry = <<>> <=> DOMAIN store = {}
        /\ IF ret.aux.entry = <<>>
           THEN ret.value = NotResolved("No matching skill found.").value
           ELSE LET id    == ret.aux.entry[1]
                    skill == SkillRead(Project(store[id], SkillFields))
                    qv    == encode(ret.args[1])
                IN  /\ \A other \in DOMAIN store :
                        Score(qv, store[id].skill_desc_vector)
                            >= Score(qv, store[other].skill_desc_vector)
                    /\ ret.value.resolved = TRUE
                    /\ IF skill.is_folder /\ skill.sub_skills # <<>>
                       THEN /\ DOMAIN ret.value = {"resolved", "entry", "children", "hint"}
                            /\ ret.value.entry = skill
                            /\ ret.value.children = get_sub_skills(store, id).value
                            /\ ret.value.hint = ResolvedFolder(skill, <<>>).value.hint
                       ELSE /\ DOMAIN ret.value = {"resolved", "skill"}
                            /\ ret.value.skill = skill

\* C29 witness: resolve has returned directly a skill that is not a folder and
\* lists a stored sub-skill.
C29_Witness ==
    /\ ret.op = "resolve"
    /\ ret.aux.gone = {}
    /\ ret.raised = ""
    /\ ret.value.resolved = TRUE
    /\ "skill" \in DOMAIN ret.value
    /\ ~ret.value.skill.is_folder
    /\ ret.value.skill.sub_skills # <<>>
    /\ \E i \in 1..Len(ret.value.skill.sub_skills) :
          ret.value.skill.sub_skills[i] \in DOMAIN store

\* C30: a bearer token is validated from its signature and its expiry alone.
\* Login issues a token with the role and the scopes the user has at that time;
\* whatever the user store holds later (the user deleted, the allow-list
\* replaced), a request with a token signed by the service is given the
\* token's own sub, role and scopes while the token has not expired, so it is
\* never answered 401 and is answered 403 exactly when the token's role is not
\* admin; once the token has expired the request is answered 401.
C30_StatelessToken ==
    /\ (ret.op = "POST /auth/login" /\ ret.raised = "") =>
        LET user == users[ret.args[1]] IN
        ret.value.access_token =
            JwtEncode([sub    |-> ret.args[1],
                       role   |-> user.role,
                       scopes |-> SkillScopes(user.allowed_skills),
                       exp    |-> ret.aux.now + AccessTokenExpireMinutes], SecretKey)
    /\ (/\ ret.op \in AdminRoutes
        /\ ret.aux.authorization # <<>>
        /\ ret.aux.authorization[1].scheme = "Bearer"
        /\ ret.aux.authorization[1].token.signed = SecretKey) =>
        LET token == ret.aux.authorization[1].token IN
        IF ret.aux.now < token.exp
        THEN /\ require_token(boot, ret.aux.authorization, ret.aux.now) =
                    Ok([sub |-> token.sub, role |-> token.role, scopes |-> token.scopes])
             /\ ret.raised # "401"
             /\ ret.raised = "403" <=> token.role # "admin"
        ELSE ret.raised = "401"

\* C30 witness: the admin user is no longer stored, and a request with the
\* token issued to the admin has just deleted the user u1.
C30_Witness ==
    /\ ret.op = "DELETE /auth/users"
    /\ ret.args = <<"u1">>
    /\ ret.aux.authorization = Bearer(AdminToken)
    /\ ret.aux.now < AdminToken.exp
    /\ ret.raised = ""
    /\ "admin" \notin DOMAIN users
    /\ "u1" \notin DOMAIN users

====
